---------------------------- MODULE Spec2Model ----------------------------
(***************************************************************************)
(* A model of telegram_bot.py: the webhook's conversation engine (the      *)
(* per-user current_mode), the help-request quota, the ban list, the offer *)
(* registry and the sequential postback run.                               *)
(*                                                                         *)
(* Conventions.                                                            *)
(*  - A MongoDB collection is a function whose DOMAIN is the set of _id    *)
(*    values stored (users, offers, help_requests), a set (banned users)   *)
(*    or a sequence in insertion order (submissions).                      *)
(*  - A message text is the sequence of its '|'-separated fields, so       *)
(*    text.split('|') is the text itself; the empty text is <<"">>.        *)
(*  - A callback_data string is the sequence <<prefix, rest>> when it      *)
(*    starts with 'offer_' and a one-element sequence otherwise.           *)
(*  - Chats are private: chat_id = user_id.                                *)
(*  - The server handles every request on a thread of its own (app.run,    *)
(*    line 1238). A request, or a direct call of a function, is a record   *)
(*    of threads: its locals and pc, the source line of the blocking       *)
(*    operation it executes next (a database call, a call of the Telegram  *)
(*    API, a postback GET, a sleep) or of the clock read it makes next     *)
(*    (a datetime.utcnow() whose value is stored or compared). One step    *)
(*    executes that operation or read and the code after it up to the      *)
(*    next one; the steps of the requests in flight interleave, and        *)
(*    midnight passes between any two of them.                             *)
(*  - The database outlives the process: the initial states hold a seeded  *)
(*    offer, and some an operator who is in a mode.                        *)
(***************************************************************************)

EXTENDS Integers, Sequences, FiniteSets, TLC

\* ------------------------------------------------------------- bounds
MaxDay == 1

MaxSubmissions == 1

MaxHelpRequests == 3

MaxCreated == 1

MaxSteps == 2

MaxInFlight == 2

\* --------------------------------------------------- program constants
ADMIN_ID == 1

HelpLimit == 2

MaxPostbacks == 5

TimeoutMs == 15000

BodyLimit == 500

ErrorTextLimit == 100

\* ------------------------------------------------------ value domains
UserIds == {1, 2}

NoMode == "None"

AdminModes == {"broadcast_mode", "ban_mode", "unban_mode", "admin_reply_mode",
               "offer_delete_mode", "offer_edit_mode", "offer_create_mode"}

NoDate == -1

NoOfferId == "none"

\* ObjectId strings: 24 hex digits in the code, short names here.
OfferIdSeq == <<"o1", "o2", "o3", "o4">>

HelpIdSeq == <<"h1", "h2", "h3", "h4", "h5">>

ObjectIdStrings == {OfferIdSeq[i] : i \in 1..Len(OfferIdSeq)}
                     \cup {HelpIdSeq[i] : i \in 1..Len(HelpIdSeq)}

RECURSIVE SeqSum(_)
SeqSum(s) == IF s = <<>> THEN 0 ELSE Head(s) + SeqSum(Tail(s))

Min(a, b) == IF a < b THEN a ELSE b

\* ---------------------------------------------------------- parsing

\* int(s) for the field strings of the model; a string outside the table
\* raises ValueError.
IntTable == [s \in {"-1", "0", "1", "2", "3"} |->
               CASE s = "-1" -> -1 [] s = "0" -> 0 [] s = "1" -> 1
                 [] s = "2" -> 2 [] s = "3" -> 3]

IsInt(s) == s \in DOMAIN IntTable

\* int(text) of a whole message: a text holding '|' is never a number.
TextIsInt(text) == Len(text) = 1 /\ IsInt(text[1])

\* bson ObjectId(s): raises InvalidId unless s has the ObjectId format.
ValidObjectId(s) == s \in ObjectIdStrings

\* urlparse(url): scheme, netloc and the raw key=value pairs of the query,
\* for the URL strings of the model; any other string has none of them.
UrlTable == [s \in {"https://x.test/?clickid=abc123",
                    "https://x.test/?tid=xyz789&clickid=abc123",
                    "https://x.test/?tid=xyz789",
                    "https://x.test/?clickid=&tid=xyz789",
                    "https://x.test/",
                    "x.test/?clickid=abc123"} |->
   CASE s = "https://x.test/?clickid=abc123" ->
          [scheme |-> "https", netloc |-> "x.test",
           query |-> << <<"clickid", "abc123">> >>]
     [] s = "https://x.test/?tid=xyz789&clickid=abc123" ->
          [scheme |-> "https", netloc |-> "x.test",
           query |-> << <<"tid", "xyz789">>, <<"clickid", "abc123">> >>]
     [] s = "https://x.test/?tid=xyz789" ->
          [scheme |-> "https", netloc |-> "x.test",
           query |-> << <<"tid", "xyz789">> >>]
     [] s = "https://x.test/?clickid=&tid=xyz789" ->
          [scheme |-> "https", netloc |-> "x.test",
           query |-> << <<"clickid", "">>, <<"tid", "xyz789">> >>]
     [] s = "https://x.test/" ->
          [scheme |-> "https", netloc |-> "x.test", query |-> <<>>]
     [] s = "x.test/?clickid=abc123" ->
          [scheme |-> "", netloc |-> "",
           query |-> << <<"clickid", "abc123">> >>]]

urlparse(s) == IF s \in DOMAIN UrlTable THEN UrlTable[s]
               ELSE [scheme |-> "", netloc |-> "", query |-> <<>>]

\* The text of a message as one string for urlparse: a text with several
\* fields is no URL of the table.
TextString(text) == IF Len(text) = 1 THEN text[1] ELSE "<several fields>"

\* parse_qs(query): the pairs with a non-blank value, in order of first
\* appearance (keep_blank_values is off).
parse_qs(query) == SelectSeq(query, LAMBDA p : p[2] # "")

\* extract_clickid_from_url: the first value of 'clickid', else the first
\* value of the first key, else None (here "").
NoClickId == ""

\* An extraction that takes the first parameter whatever its name.
extract_clickid_from_url_FirstKey(text) ==
    LET params == parse_qs(urlparse(TextString(text)).query)
    IN  IF params # <<>> THEN params[1][2] ELSE NoClickId

extract_clickid_from_url(text) ==
    LET params == parse_qs(urlparse(TextString(text)).query)
        ck == SelectSeq(params, LAMBDA p : p[1] = "clickid")
    IN  IF ck # <<>> THEN ck[1][2]
        ELSE IF params # <<>> THEN params[1][2]
        ELSE NoClickId

validate_url_format(text) ==
    LET r == urlparse(TextString(text))
    IN  r.scheme # "" /\ r.netloc # ""

\* A postback template as the sequence of its pieces; a '$name' piece is a
\* placeholder.
TemplateTable == [s \in {"https://cb.test/?tid=$clickid",
                         "https://track.test/?id=$myvar"} |->
   CASE s = "https://cb.test/?tid=$clickid" -> <<"https://cb.test/?tid=", "$clickid">>
     [] s = "https://track.test/?id=$myvar" -> <<"https://track.test/?id=", "$myvar">>]

Pieces(s) == IF s \in DOMAIN TemplateTable THEN TemplateTable[s] ELSE <<s>>

\* postback_url.replace('$clickid', clickid)
ReplaceClickid(template, clickid) ==
    [i \in 1..Len(Pieces(template)) |->
        IF Pieces(template)[i] = "$clickid" THEN clickid ELSE Pieces(template)[i]]


\* ------------------------------------------------------------- state
\* The collections (joined is the order in which the documents of users
\* were inserted, the order in which find() returns them), the UTC date,
\* the requests and calls in flight (threads, by thread number) and the
\* record of the request or call that returned last. serial records the
\* history: it holds as long as every request and call so far was handled
\* with no other in flight.
VARIABLES users, joined, banned, offers, submissions, help_requests, oids,
          today, threads, last, serial

vars == <<users, joined, banned, offers, submissions, help_requests, oids,
          today, threads, last, serial>>

dbvars == <<users, joined, banned, offers, submissions, help_requests, oids>>

\* The database as one value, which the operations below transform.
DB == [users |-> users, joined |-> joined, banned |-> banned, offers |-> offers,
       submissions |-> submissions, help_requests |-> help_requests,
       oids |-> oids]

NewUser == [current_mode |-> NoMode, current_offer_id |-> NoOfferId,
            help_requests_today |-> 0, last_help_request_date |-> NoDate]

\* -------------------------------------------- single database operations

\* An update of current_mode without the filter on _id: every stored user
\* gets the mode.
SetMode_EveryUser(db, u, mode) ==
    [db EXCEPT !.users = [x \in DOMAIN db.users |->
                             [db.users[x] EXCEPT !.current_mode = mode]]]

\* users_collection.update_one({'_id': user_id}, {'$set': {'current_mode': mode}})
SetMode(db, u, mode) ==
    IF u \in DOMAIN db.users
    THEN [db EXCEPT !.users[u].current_mode = mode]
    ELSE db

\* users_collection.insert_one of get_or_create_user (lines 75-86).
InsertUser(db, u) ==
    [db EXCEPT !.users = [x \in DOMAIN db.users \cup {u} |->
                             IF x = u THEN NewUser ELSE db.users[x]],
               !.joined = Append(@, u)]

\* is_user_banned finding no ban record, whoever asks.
is_user_banned_Never(db, u) == FALSE

is_user_banned(db, u) == u \in db.banned

\* unban_user: delete_one and deleted_count > 0.
unban_user(db, target) ==
    [db |-> [db EXCEPT !.banned = @ \ {target}], ok |-> target \in db.banned]

\* The test of can_send_help_request (lines 127-133) on the record its
\* find_one returned and the date read at line 126.
WithinQuota(user, day) ==
    LET last_date == user.last_help_request_date
    IN  ~(last_date # NoDate /\ last_date = day
          /\ user.help_requests_today >= HelpLimit)

\* create_offer without the comparison of the two lengths.
create_offer_NoLengthCheck(db, name, starting_link, postbacks, delays) ==
    IF Len(postbacks) < 1 \/ Len(postbacks) > MaxPostbacks
    THEN [db |-> db, ok |-> FALSE]
    ELSE LET id == OfferIdSeq[db.oids + 1]
             doc == [name |-> name, starting_link |-> starting_link,
                     postbacks |-> postbacks, delays |-> delays,
                     enabled |-> TRUE, total_submissions |-> 0,
                     success_count |-> 0]
         IN  [db |-> [db EXCEPT !.oids = @ + 1,
                                !.offers = [o \in DOMAIN db.offers \cup {id} |->
                                    IF o = id THEN doc ELSE db.offers[o]]],
              ok |-> TRUE]

\* create_offer: (success, database); the new _id is the next unused
\* ObjectId. The two checks come before the one database operation.
create_offer(db, name, starting_link, postbacks, delays) ==
    IF Len(postbacks) < 1 \/ Len(postbacks) > MaxPostbacks
    THEN [db |-> db, ok |-> FALSE]
    ELSE IF Len(postbacks) # Len(delays)
    THEN [db |-> db, ok |-> FALSE]
    ELSE LET id == OfferIdSeq[db.oids + 1]
             doc == [name |-> name, starting_link |-> starting_link,
                     postbacks |-> postbacks, delays |-> delays,
                     enabled |-> TRUE, total_submissions |-> 0,
                     success_count |-> 0]
         IN  [db |-> [db EXCEPT !.oids = @ + 1,
                                !.offers = [o \in DOMAIN db.offers \cup {id} |->
                                    IF o = id THEN doc ELSE db.offers[o]]],
              ok |-> TRUE]

\* get_all_offers / get_enabled_offers: the ids of the offers found.
get_all_offers(db) == DOMAIN db.offers

get_enabled_offers(db) == {o \in DOMAIN db.offers : db.offers[o].enabled}

\* get_offer(offer_id) for an id of ObjectId format: whether find_one
\* returns an offer.
OfferExists(db, offer_id) == offer_id \in DOMAIN db.offers

\* edit_offer: ObjectId(offer_id) raises on a malformed id and the except
\* returns (False, ...); update_one on a missing id changes nothing and
\* still returns (True, "Offer updated").
edit_offer(db, offer_id, name, starting_link, postbacks, delays) ==
    IF ~ValidObjectId(offer_id) THEN [db |-> db, ok |-> FALSE]
    ELSE IF offer_id \in DOMAIN db.offers
    THEN [db |-> [db EXCEPT !.offers[offer_id].name = name,
                            !.offers[offer_id].starting_link = starting_link,
                            !.offers[offer_id].postbacks = postbacks,
                            !.offers[offer_id].delays = delays],
          ok |-> TRUE]
    ELSE [db |-> db, ok |-> TRUE]

\* delete_offer: as edit_offer; the submissions collection is not touched.
delete_offer(db, offer_id) ==
    IF ~ValidObjectId(offer_id) THEN [db |-> db, ok |-> FALSE]
    ELSE [db |-> [db EXCEPT !.offers = [o \in DOMAIN db.offers \ {offer_id} |->
                                           db.offers[o]]],
          ok |-> TRUE]

\* The insert_one of save_submission (lines 285-297).
insert_submission(db, u, run) ==
    [db EXCEPT !.submissions = Append(@,
        [user_id |-> u, offer_id |-> run.offer_id, submitted_url |-> run.url,
         extracted_clickid |-> run.clickid,
         postback_responses |-> run.postback_responses,
         total_execution_time_ms |-> run.total_time,
         success |-> run.all_success,
         postback_count |-> Len(run.postback_responses)])]

\* An update of the counters that counts every run as a success.
update_offer_stats_AlwaysCounted(db, offer_id, success, seen) ==
    IF offer_id \in DOMAIN db.offers
    THEN [db EXCEPT !.offers[offer_id].total_submissions = @ + 1,
                    !.offers[offer_id].success_count = @ + 1]
    ELSE db

\* An update of the counters computed by the client from the counters it
\* saw when save_submission began, written back with $set.
update_offer_stats_FromSeen(db, offer_id, success, seen) ==
    IF offer_id \in DOMAIN db.offers
    THEN [db EXCEPT !.offers[offer_id].total_submissions = seen[1] + 1,
                    !.offers[offer_id].success_count =
                        seen[2] + (IF success THEN 1 ELSE 0)]
    ELSE db

\* The update_one of save_submission (lines 300-305): $inc reads and
\* writes the counters in one server-side step and matches nothing when
\* the offer is gone; seen, the counters as they were when save_submission
\* began, plays no part in it.
update_offer_stats(db, offer_id, success, seen) ==
    IF offer_id \in DOMAIN db.offers
    THEN [db EXCEPT !.offers[offer_id].total_submissions = @ + 1,
                    !.offers[offer_id].success_count =
                        @ + (IF success THEN 1 ELSE 0)]
    ELSE db

OfferCounters(offer) == <<offer.total_submissions, offer.success_count>>

\* ------------------------------------------------ parsing of messages

SubSeqFrom(parts, first, n) == [i \in 1..n |-> parts[first + i - 1]]

AllInts(fields) == \A i \in 1..Len(fields) : IsInt(fields[i])

IntsOf(fields) == [i \in 1..Len(fields) |-> IntTable[fields[i]]]

EmptyText == <<"">>

\* The split-point search without the loop's inner test 'i == len(parts) - 5':
\* the first i with enough fields is taken.
CreatePbCount_FirstFit(parts) ==
    LET found == {i \in 1..5 : Len(parts) > i + 1 /\ Len(parts) > i + 5}
    IN  IF found # {} THEN CHOOSE i \in found : \A j \in found : i <= j
        ELSE (Len(parts) - 2) \div 2

\* The split-point search of the create branch (lines 819-829): the loop
\* over i = 1..5, then the fallback.
CreatePbCount(parts) ==
    LET found == {i \in 1..5 : Len(parts) > i + 1 /\ Len(parts) > i + 5
                               /\ i = Len(parts) - 5}
    IN  IF found # {} THEN CHOOSE i \in found : \A j \in found : i <= j
        ELSE (Len(parts) - 2) \div 2

\* remaining // 2 of the edit branch (lines 781-782).
EditPbCount(parts) == (Len(parts) - 3) \div 2

\* The conditions of the if/elif chain of the message half (lines
\* 593-808), in the order of the code: the first that holds names the branch.
MessageRoute(u, text, mode) ==
    LET has_text == text # EmptyText
    IN  IF text = <<"/start">> THEN "start"
        ELSE IF mode = "help_mode" /\ has_text THEN "help_mode"
        ELSE IF mode = "offer_mode" /\ has_text THEN "offer_mode"
        ELSE IF mode = "broadcast_mode" /\ u = ADMIN_ID /\ has_text THEN "broadcast_mode"
        ELSE IF mode = "ban_mode" /\ u = ADMIN_ID /\ has_text THEN "ban_mode"
        ELSE IF mode = "unban_mode" /\ u = ADMIN_ID /\ has_text THEN "unban_mode"
        ELSE IF mode = "admin_reply_mode" /\ u = ADMIN_ID /\ has_text
          THEN "admin_reply_mode"
        ELSE IF mode = "offer_delete_mode" /\ u = ADMIN_ID /\ has_text
          THEN "offer_delete_mode"
        ELSE IF mode = "offer_edit_mode" /\ u = ADMIN_ID /\ has_text
          THEN "offer_edit_mode"
        ELSE IF mode = "offer_create_mode" /\ u = ADMIN_ID /\ has_text
          THEN "offer_create_mode"
        ELSE "none"

\* What getChatMember can answer for one channel: a status, a reply with
\* ok = false, or a failed call.
MemberAnswers == {"member", "restricted", "left", "kicked", "not_ok", "error"}

REQUIRED_CHANNELS == {1, 2}

GatedData == {<<"offers">>, <<"help">>, <<"offer_", "offer18">>, <<"offer_", "second">>}

Pending(db) == {h \in DOMAIN db.help_requests : db.help_requests[h].status = "pending"}

\* The conditions of the if/elif chain on callback_data (lines 877-1207),
\* in the order of the code: the first that holds names the branch taken.
CallbackRoute(data) ==
    IF data = <<"home">> THEN "home"
    ELSE IF data = <<"offers">> THEN "offers"
    ELSE IF data[1] = "offer_" THEN "offer_select"
    ELSE IF data = <<"help">> THEN "help"
    ELSE IF data = <<"join_channel">> THEN "join_channel"
    ELSE IF data = <<"check_membership">> THEN "check_membership"
    ELSE IF data = <<"admin_panel">> THEN "admin_panel"
    ELSE IF data = <<"admin_stats">> THEN "admin_stats"
    ELSE IF data = <<"admin_recent_joins">> THEN "admin_recent_joins"
    ELSE IF data = <<"admin_help_requests">> THEN "admin_help_requests"
    ELSE IF data = <<"admin_reply_mode">> THEN "admin_reply_mode"
    ELSE IF data = <<"admin_broadcast">> THEN "admin_broadcast"
    ELSE IF data = <<"admin_manage_offers">> THEN "admin_manage_offers"
    ELSE IF data = <<"offer_", "list">> THEN "offer_list"
    ELSE IF data = <<"offer_", "delete">> THEN "offer_delete"
    ELSE IF data = <<"offer_", "edit">> THEN "offer_edit"
    ELSE IF data = <<"admin_offer_analytics">> THEN "admin_offer_analytics"
    ELSE IF data = <<"admin_ban">> THEN "admin_ban"
    ELSE IF data = <<"admin_unban">> THEN "admin_unban"
    ELSE IF data = <<"offer_", "create">> THEN "offer_create"
    ELSE "none"

\* ------------------------------------------------- the postback call

\* What requests.get can do: answer (any status code, a body of some
\* length, after some milliseconds), time out, fail to connect, or raise
\* another exception, whose message has some length.
ResponseOutcomes ==
    [kind : {"response"}, status : {200, 404, 503}, body_len : {500, 501},
     elapsed : {120}, msg_len : {0}]

FailureOutcomes ==
    [kind : {"timeout", "connection_error"}, status : {0},
     body_len : {0}, elapsed : {0}, msg_len : {0}]
      \cup [kind : {"other"}, status : {0}, body_len : {0}, elapsed : {0},
            msg_len : {0, 4, 150}]

AllOutcomes == ResponseOutcomes \cup FailureOutcomes

\* len('❌ Error: ' + str(e)[:100]) of line 381.
ErrorText(msg_len) ==
    [text |-> "error", len |-> 9 + Min(msg_len, ErrorTextLimit)]

\* send_postback with the status code read as the verdict: a 4xx or 5xx
\* answer counted as a failure.
send_postback_ByStatus(outcome) ==
    IF outcome.kind = "response"
    THEN [success |-> outcome.status < 400,
          response |-> [text |-> "body",
                        len |-> IF outcome.body_len > BodyLimit
                                THEN BodyLimit + 3 ELSE outcome.body_len],
          status_code |-> outcome.status, elapsed |-> outcome.elapsed]
    ELSE [success |-> FALSE, response |-> ErrorText(outcome.msg_len),
          status_code |-> 0,
          elapsed |-> IF outcome.kind = "timeout" THEN TimeoutMs ELSE 0]

\* send_postback: (success, response_text, status_code, elapsed); the text
\* is kept as its kind and its length.
send_postback(outcome) ==
    CASE outcome.kind = "response" ->
           [success |-> TRUE,
            response |-> [text |-> "body",
                          len |-> IF outcome.body_len > BodyLimit
                                  THEN BodyLimit + 3 ELSE outcome.body_len],
            status_code |-> outcome.status, elapsed |-> outcome.elapsed]
      [] outcome.kind = "timeout" ->
           [success |-> FALSE, response |-> [text |-> "timeout", len |-> 33],
            status_code |-> 0, elapsed |-> TimeoutMs]
      [] outcome.kind = "connection_error" ->
           [success |-> FALSE, response |-> [text |-> "connection_error", len |-> 18],
            status_code |-> 0, elapsed |-> 0]
      [] OTHER ->
           [success |-> FALSE, response |-> ErrorText(outcome.msg_len),
            status_code |-> 0, elapsed |-> 0]

\* --------------------------------------------------------- the seed

TemplateA == "https://cb.test/?tid=$clickid"

TemplateB == "https://track.test/?id=$myvar"

SeedOffer ==
    [name |-> "Seed", starting_link |-> "https://x.test",
     postbacks |-> <<TemplateA, TemplateB>>, delays |-> <<2, 0>>,
     enabled |-> TRUE, total_submissions |-> 0, success_count |-> 0]

InitOffers == [o \in {"o1"} |-> SeedOffer]

InitOids == 1

\* ----------------------------------------------------------- threads

\* The locals of run_postbacks_sequence and of the branch that calls it:
\* i is the loop index (from 1). calls, outcomes and slept record what has
\* happened: the steps whose HTTP call was issued (in order), how each
\* call ended, the steps whose delay has been slept through. seen holds
\* the offer's counters as they were when save_submission began.
NoRun ==
    [offer_id |-> NoOfferId, url |-> EmptyText, clickid |-> NoClickId,
     postbacks |-> <<>>, delays |-> <<>>, i |-> 1,
     postback_responses |-> <<>>, all_success |-> TRUE, total_time |-> 0,
     calls |-> <<>>, outcomes |-> <<>>, slept |-> {}, seen |-> <<0, 0>>]

NewRun(offer_id, url, offer) ==
    [NoRun EXCEPT !.offer_id = offer_id, !.url = url,
                  !.clickid = extract_clickid_from_url(url),
                  !.postbacks = offer.postbacks, !.delays = offer.delays]

\* zip(postbacks, delays) stops at the shorter list.
Steps(run) == Min(Len(run.postbacks), Len(run.delays))

\* A request (kind "message" or "callback") or a direct call of a function
\* (kind "call") that has just begun. pc is the line of the next blocking
\* operation and 0 once the request or call has returned; site the line
\* where the function being executed was called (0 for a direct call).
\* sent is the list of send_message calls (recipient and kind of message),
\* acks the number of answer_callback_query calls, gate the result of the
\* membership check when the request made one, branch the branch of the
\* if/elif chain that handles the request, http the status returned.
\* doc is the local 'user', the other fields are locals of the functions.
NewThread(kind, u, text, data) ==
    [kind |-> kind, user |-> u, text |-> text, data |-> data,
     fn |-> "webhook", pc |-> 0, site |-> 0,
     branch |-> "none", sent |-> <<>>, acks |-> 0, gate |-> "none",
     http |-> 0, ok |-> FALSE, raised |-> FALSE, is_new |-> FALSE,
     doc |-> NewUser, seen |-> NewUser, day |-> 0, now |-> 0, target |-> 0,
     channel |-> 1,
     answers |-> <<>>, missing |-> 0, rest |-> <<>>, req |-> "",
     new_status |-> FALSE, run |-> NoRun]

Go(db, r, pc) == [db |-> db, r |-> [r EXCEPT !.pc = pc]]

\* return 'ok', 200
Done(db, r) == [db |-> db, r |-> [r EXCEPT !.pc = 0, !.http = 200]]

\* An exception that no handler inside the function catches: the outer
\* except of webhook (lines 1211-1213) answers 500, and a direct call
\* passes the exception on to its caller. What was written and sent
\* before stays.
Raise(db, r) ==
    [db |-> db,
     r |-> [r EXCEPT !.pc = 0, !.raised = TRUE,
                     !.http = IF r.kind = "call" THEN 0 ELSE 500]]

Then(db, r, next) == IF next = 0 THEN Done(db, r) ELSE Go(db, r, next)

\* send_message(to, ...) at the line pc, then on to the line next (0: the
\* request returns).
Send(db, r, to, tag, next) ==
    Then(db, [r EXCEPT !.sent = Append(@, [to |-> to, tag |-> tag])], next)

\* answer_callback_query
Ack(db, r, next) == Then(db, [r EXCEPT !.acks = @ + 1], next)

\* users_collection.update_one(... {'$set': {'current_mode': mode}})
Mode(db, r, mode, next) == Then(SetMode(db, r.user, mode), r, next)

\* A find or count whose result only shows in the text of a message.
Read(db, r, next) == Then(db, r, next)

\* The members of S in the order of the list order.
RECURSIVE SortedIds(_, _)
SortedIds(S, order) ==
    IF order = <<>> THEN <<>>
    ELSE (IF Head(order) \in S THEN <<Head(order)>> ELSE <<>>)
            \o SortedIds(S, Tail(order))

\* -------------------------------------------- the chains of the webhook

\* The chain of the message half (lines 593-844) up to the first blocking
\* operation of the branch taken: the parsing of the operator's input
\* happens here.
MessageDispatch(db, r0) ==
    LET u == r0.user
        text == r0.text
        route == MessageRoute(u, text, r0.doc.current_mode)
        r == [r0 EXCEPT !.branch = route]
    IN  CASE route = "start" -> Go(db, r, 595)
          [] route = "help_mode" -> Go(db, [r EXCEPT !.site = 605], 122)
          [] route = "offer_mode" -> Go(db, r, 624)
          [] route = "broadcast_mode" -> Go(db, r, 685)
          [] route = "ban_mode" ->
               IF TextIsInt(text)
               THEN Go(db, [r EXCEPT !.target = IntTable[text[1]], !.site = 710], 102)
               ELSE Go(db, r, 715)
          [] route = "unban_mode" ->
               IF TextIsInt(text)
               THEN Go(db, [r EXCEPT !.target = IntTable[text[1]]], 723)
               ELSE Go(db, r, 728)
          [] route = "admin_reply_mode" ->
               IF Len(text) > 1
               THEN IF ValidObjectId(text[1])
                    THEN Go(db, [r EXCEPT !.req = text[1], !.rest = Tail(text),
                                          !.site = 742], 172)
                    ELSE Go(db, r, 749)
               ELSE Go(db, r, 751)
          [] route = "offer_delete_mode" ->
               IF ValidObjectId(TextString(text)) THEN Go(db, r, 761)
               ELSE Go(db, [r EXCEPT !.ok = FALSE], 762)
          [] route = "offer_edit_mode" ->
               LET pb_count == EditPbCount(text)
               IN  IF Len(text) < 4 THEN Go(db, r, 773)
                   ELSE IF pb_count < 1 \/ pb_count > MaxPostbacks THEN Go(db, r, 785)
                   ELSE IF ~AllInts(SubSeqFrom(text, pb_count + 4, pb_count))
                   THEN Go(db, r, 803)
                   ELSE IF ValidObjectId(text[1]) THEN Go(db, r, 799)
                   ELSE Go(db, [r EXCEPT !.ok = FALSE], 800)
          [] route = "offer_create_mode" ->
               LET pb_count == CreatePbCount(text)
               IN  IF Len(text) < 4 THEN Go(db, r, 812)
                   ELSE IF pb_count < 1 \/ pb_count > MaxPostbacks THEN Go(db, r, 832)
                   ELSE IF ~AllInts(SubSeqFrom(text, pb_count + 3, pb_count))
                   THEN Go(db, r, 842)
                   ELSE Go(db, r, 838)
          [] OTHER -> Done(db, r)

\* The test 'user_id != ADMIN_ID' of the admin branches passing everyone.
NotAdmin_Nobody(u) == FALSE

\* if user_id != ADMIN_ID
NotAdmin(u) == u # ADMIN_ID

\* An admin branch: a non-operator gets an alert at the line alert (0:
\* nothing), the operator goes on at the line first.
AdminBranch(db, r, alert, first) ==
    IF NotAdmin(r.user) THEN Then(db, r, alert) ELSE Go(db, r, first)

\* The chain on callback_data (lines 877-1207) up to the first blocking
\* operation of the branch taken.
CallbackDispatch(db, r0) ==
    LET route == CallbackRoute(r0.data)
        r == [r0 EXCEPT !.branch = route]
    IN  CASE route = "home" -> Go(db, r, 879)
          [] route = "offers" -> Go(db, r, 885)
          [] route = "offer_select" -> Go(db, r, 890)
          [] route = "help" -> Go(db, r, 912)
          [] route = "join_channel" -> Go(db, r, 928)
          [] route = "check_membership" -> Go(db, r, 938)
          [] route = "admin_panel" -> AdminBranch(db, r, 957, 960)
          [] route = "admin_stats" -> AdminBranch(db, r, 0, 972)
          [] route = "admin_recent_joins" -> AdminBranch(db, r, 0, 991)
          [] route = "admin_help_requests" -> AdminBranch(db, r, 0, 1011)
          [] route = "admin_reply_mode" -> AdminBranch(db, r, 0, 1029)
          [] route = "admin_broadcast" -> AdminBranch(db, r, 0, 1049)
          [] route = "admin_manage_offers" -> AdminBranch(db, r, 1061, 1064)
          [] route = "offer_list" -> AdminBranch(db, r, 1075, 1078)
          [] route = "offer_delete" -> AdminBranch(db, r, 1097, 1100)
          [] route = "offer_edit" -> AdminBranch(db, r, 1113, 1116)
          [] route = "admin_offer_analytics" -> AdminBranch(db, r, 0, 1132)
          [] route = "admin_ban" -> AdminBranch(db, r, 0, 1159)
          [] route = "admin_unban" -> AdminBranch(db, r, 0, 1173)
          [] route = "offer_create" -> AdminBranch(db, r, 1185, 1188)
          [] OTHER -> Done(db, r)

\* A function returns to the line where it was called (r.site) and the
\* caller goes on to its next blocking operation; ok is the flag the
\* function returned. A direct call (site 0) has ended.
Return(db, r, ok) ==
    CASE r.site = 0 -> [db |-> db, r |-> [r EXCEPT !.pc = 0, !.ok = ok]]
      \* user, is_new_user = get_or_create_user(...)
      [] r.site = 590 -> MessageDispatch(db, r)
      [] r.site = 859 ->
           IF r.data \in GatedData
           THEN Go(db, [r EXCEPT !.site = 863, !.channel = 1], 484)
           ELSE CallbackDispatch(db, r)
      \* is_member, missing_channel = check_channel_membership(user_id)
      [] r.site = 863 ->
           IF ~ok THEN Go(db, [r EXCEPT !.gate = "fail", !.branch = "gate"], 865)
           ELSE CallbackDispatch(db, [r EXCEPT !.gate = "pass"])
      [] r.site = 939 -> Go(db, r, IF ok THEN 941 ELSE 945)
      \* if ban_user(target_user_id)
      [] r.site = 710 -> Go(db, r, IF ok THEN 711 ELSE 713)
      \* can_send, error_msg = can_send_help_request(user_id)
      [] r.site = 605 ->
           IF ok THEN Go(db, [r EXCEPT !.site = 609], 137) ELSE Go(db, r, 607)
      [] r.site = 913 -> Go(db, r, IF ok THEN 917 ELSE 915)
      \* add_help_request(user_id, username, text)
      [] r.site = 609 -> Go(db, r, 610)
      \* success, message = reply_to_help_request(request_id, reply_text)
      [] r.site = 742 -> Go(db, r, IF ok THEN 745 ELSE 747)
      \* run_postbacks_sequence(...) returns and save_submission is called
      [] r.site = 657 -> Go(db, [r EXCEPT !.site = 665], 285)
      \* save_submission(...)
      [] r.site = 665 -> Go(db, r, 671)

\* ------------------------------------- functions of several operations

\* get_or_create_user inserting and notifying whether or not a record is
\* found.
get_or_create_user_Always(db, r) ==
    CASE r.pc = 70 -> Go(db, r, 75)
      [] r.pc = 75 -> Go(InsertUser(db, r.user), [r EXCEPT !.is_new = TRUE], 87)
      [] r.pc = 87 -> Send(db, r, ADMIN_ID, "new_user", 88)
      [] r.pc = 88 -> Return(db, [r EXCEPT !.doc = db.users[r.user]], TRUE)

\* get_or_create_user (lines 68-94): find_one; for no record insert_one,
\* which raises DuplicateKeyError when a record with this _id was inserted
\* since the find_one, then the notice to the operator and a second
\* find_one. Every record of the model holds current_mode.
get_or_create_user(db, r) ==
    CASE r.pc = 70 ->
           IF r.user \in DOMAIN db.users
           THEN Return(db, [r EXCEPT !.doc = db.users[r.user]], FALSE)
           ELSE Go(db, r, 75)
      [] r.pc = 75 ->
           IF r.user \in DOMAIN db.users THEN Raise(db, r)
           ELSE Go(InsertUser(db, r.user), [r EXCEPT !.is_new = TRUE], 87)
      [] r.pc = 87 -> Send(db, r, ADMIN_ID, "new_user", 88)
      [] r.pc = 88 -> Return(db, [r EXCEPT !.doc = db.users[r.user]], TRUE)

\* ban_user (lines 100-105): is_user_banned, then insert_one, which
\* raises DuplicateKeyError when the record was inserted in between.
ban_user(db, r) ==
    CASE r.pc = 102 ->
           IF is_user_banned(db, r.target) THEN Return(db, r, FALSE)
           ELSE Go(db, r, 103)
      [] r.pc = 103 ->
           IF r.target \in db.banned THEN Raise(db, r)
           ELSE Return([db EXCEPT !.banned = @ \cup {r.target}], r, TRUE)

\* can_send_help_request (lines 120-133): the find_one of line 122, whose
\* result is r.seen, and then the clock read of line 126 with the test of
\* lines 127-131 on the date read; day is the date when the step is made.
\* The locals end with the function.
can_send_help_request(db, r, day) ==
    CASE r.pc = 122 ->
           IF r.user \in DOMAIN db.users
           THEN Go(db, [r EXCEPT !.seen = db.users[r.user]], 126)
           ELSE Return(db, r, FALSE)
      [] r.pc = 126 -> Return(db, [r EXCEPT !.seen = NewUser], WithinQuota(r.seen, day))

\* add_help_request (lines 135-163): r.day is 'today' of line 137 and
\* r.now the datetime.utcnow() of lines 145, 150 and 157, each read in a
\* step of its own after the operation before has returned and before
\* the operation that stores it goes out; day is the date when the step
\* is made; the locals end with the function. The message text and the
\* username of the document are left out: nothing reads them but the
\* texts shown to the operator.
add_help_request(db, r, day) ==
    LET u == r.user
    IN  CASE r.pc = 137 -> Go(db, [r EXCEPT !.day = day], 138)
          [] r.pc = 138 ->
               IF u \in DOMAIN db.users
               THEN LET last_date == db.users[u].last_help_request_date
                    IN  Go(db, r, IF last_date # NoDate /\ last_date # r.day
                                  THEN 145 ELSE 150)
               ELSE Go(db, r, 157)
          [] r.pc = 145 -> Go(db, [r EXCEPT !.now = day], 143)
          [] r.pc = 150 -> Go(db, [r EXCEPT !.now = day], 148)
          [] r.pc = 143 ->
               Go(IF u \in DOMAIN db.users
                  THEN [db EXCEPT !.users[u].help_requests_today = 1,
                                  !.users[u].last_help_request_date = r.now]
                  ELSE db, r, 157)
          [] r.pc = 148 ->
               Go(IF u \in DOMAIN db.users
                  THEN [db EXCEPT !.users[u].help_requests_today = @ + 1,
                                  !.users[u].last_help_request_date = r.now]
                  ELSE db, r, 157)
          [] r.pc = 157 -> Go(db, [r EXCEPT !.now = day], 153)
          [] r.pc = 153 ->
               LET id == HelpIdSeq[Cardinality(DOMAIN db.help_requests) + 1]
                   doc == [user_id |-> u, created_at |-> r.now,
                           admin_reply |-> <<>>, replied |-> FALSE,
                           status |-> "pending"]
               IN  Return([db EXCEPT !.help_requests =
                              [h \in DOMAIN db.help_requests \cup {id} |->
                                  IF h = id THEN doc ELSE db.help_requests[h]]],
                          [r EXCEPT !.day = 0, !.now = 0], TRUE)

\* reply_to_help_request (lines 169-201): r.req is request_id, r.rest the
\* reply text, r.target the user_id of the request found.
reply_to_help_request(db, r) ==
    CASE r.pc = 172 ->
           IF r.req \notin DOMAIN db.help_requests THEN Return(db, r, FALSE)
           ELSE Go(db, [r EXCEPT !.target = db.help_requests[r.req].user_id], 176)
      [] r.pc = 176 ->
           Go(IF r.req \in DOMAIN db.help_requests
              THEN [db EXCEPT !.help_requests[r.req].admin_reply = r.rest,
                              !.help_requests[r.req].replied = TRUE,
                              !.help_requests[r.req].status = "resolved"]
              ELSE db, r, 191)
      [] r.pc = 191 ->
           LET x == Send(db, r, r.target, "support_reply", 191)
           IN  Return(x.db, x.r, TRUE)

\* The answers that end the loop with False: a status of the list at line
\* 488, data['ok'] false, an exception.
DenyingAnswers == {"left", "kicked", "not_ok", "error"}

\* check_channel_membership with the except clause letting the user in.
check_channel_membership_FailOpen(db, r0, answer) ==
    LET r == [r0 EXCEPT !.answers = Append(@, answer)]
    IN  IF answer = "error" THEN Return(db, r, TRUE)
        ELSE IF answer \in DenyingAnswers
        THEN Return(db, [r EXCEPT !.missing = r.channel], FALSE)
        ELSE IF r.channel + 1 \in REQUIRED_CHANNELS
        THEN Go(db, [r EXCEPT !.channel = @ + 1], 484)
        ELSE Return(db, r, TRUE)

\* check_channel_membership (lines 478-495): one getChatMember call per
\* channel, in order; answer is what the provider answers to the call of
\* channel r.channel. Returns is_member; r.missing is the missing channel,
\* 0 for None.
check_channel_membership(db, r0, answer) ==
    LET r == [r0 EXCEPT !.answers = Append(@, answer)]
    IN  IF answer = "error" THEN Return(db, r, FALSE)
        ELSE IF answer \in DenyingAnswers
        THEN Return(db, [r EXCEPT !.missing = r.channel], FALSE)
        ELSE IF r.channel + 1 \in REQUIRED_CHANNELS
        THEN Go(db, [r EXCEPT !.channel = @ + 1], 484)
        ELSE Return(db, r, TRUE)

\* The entry run_postbacks_sequence appends for step i.
StepEntry(run, res) ==
    [postback_num |-> run.i,
     postback_url |-> ReplaceClickid(run.postbacks[run.i], run.clickid),
     response |-> res.response, status_code |-> res.status_code,
     success |-> res.success, execution_time_ms |-> res.elapsed]

\* AfterCall counting a delay only where a wait follows the step.
AfterCall_WaitedDelaysOnly(run, outcome) ==
    LET res == send_postback(outcome)
    IN  [run EXCEPT !.total_time = @ + res.elapsed +
                      (IF run.i < Len(run.postbacks) THEN run.delays[run.i] * 1000 ELSE 0),
                    !.postback_responses = Append(@, StepEntry(run, res)),
                    !.all_success = IF ~res.success THEN FALSE ELSE @,
                    !.outcomes = Append(@, outcome.kind)]

\* AfterCall with all_success overwritten by each step's result.
AfterCall_LastStepWins(run, outcome) ==
    LET res == send_postback(outcome)
    IN  [run EXCEPT !.total_time = @ + res.elapsed + run.delays[run.i] * 1000,
                    !.postback_responses = Append(@, StepEntry(run, res)),
                    !.all_success = res.success,
                    !.outcomes = Append(@, outcome.kind)]

\* The locals of the loop after the call of step i returned (lines
\* 395-406 and 419-420).
AfterCall(run, outcome) ==
    LET res == send_postback(outcome)
    IN  [run EXCEPT !.total_time = @ + res.elapsed + run.delays[run.i] * 1000,
                    !.postback_responses = Append(@, StepEntry(run, res)),
                    !.all_success = IF ~res.success THEN FALSE ELSE @,
                    !.outcomes = Append(@, outcome.kind)]

\* The loop going straight on to the next call, the notice and the sleep
\* skipped.
AfterProgress_NoSleep(db, r) ==
    IF r.run.i < Steps(r.run)
    THEN Go(db, [r EXCEPT !.run.i = @ + 1], 395)
    ELSE Return(db, r, TRUE)

\* Lines 422-428, after the progress message of step i: before any step
\* but the last of postbacks the waiting notice and the sleep follow;
\* otherwise the loop ends (zip has no further pair) and the function
\* returns.
AfterProgress(db, r) ==
    IF r.run.i < Len(r.run.postbacks) THEN Go(db, r, 425)
    ELSE Return(db, r, TRUE)

\* run_postbacks_sequence (lines 383-428), entered with at least one
\* pair in zip(postbacks, delays). 395: the GET of step i goes out;
\* 367: requests.get ends with outcome; 410: the progress message; 425:
\* the waiting notice; 426: time.sleep, which raises ValueError for a
\* negative length.
run_postbacks_sequence(db, r, outcome) ==
    CASE r.pc = 395 -> Go(db, [r EXCEPT !.run.calls = Append(@, r.run.i)], 367)
      [] r.pc = 367 -> Go(db, [r EXCEPT !.run = AfterCall(r.run, outcome)], 410)
      [] r.pc = 410 ->
           LET x == Send(db, r, r.user, "progress", 410)
           IN  AfterProgress(x.db, x.r)
      [] r.pc = 425 -> Send(db, r, r.user, "waiting", 426)
      [] r.pc = 426 ->
           IF r.run.delays[r.run.i] < 0 THEN Raise(db, r)
           ELSE LET r1 == [r EXCEPT !.run.slept = @ \cup {r.run.i},
                                    !.run.i = @ + 1]
                IN  IF r.run.i < Steps(r.run) THEN Go(db, r1, 395)
                    ELSE Return(db, r1, TRUE)

\* save_submission (lines 283-307): ObjectId(offer_id) raises on a
\* malformed id before anything is written; insert_one, then update_one.
save_submission(db, r) ==
    CASE r.pc = 285 ->
           IF ~ValidObjectId(r.run.offer_id) THEN Raise(db, r)
           ELSE Go(insert_submission(db, r.user, r.run),
                   [r EXCEPT !.run.seen =
                       IF r.run.offer_id \in DOMAIN db.offers
                       THEN OfferCounters(db.offers[r.run.offer_id])
                       ELSE <<0, 0>>], 300)
      [] r.pc = 300 ->
           Return(update_offer_stats(db, r.run.offer_id, r.run.all_success,
                                     r.run.seen), r, TRUE)

\* toggle_offer_status (lines 265-281): r.req is offer_id; find_one, then
\* update_one with the negation of the flag found. A malformed id raises
\* inside the try and the function returns (False, ...).
toggle_offer_status(db, r) ==
    CASE r.pc = 268 ->
           IF ~ValidObjectId(r.req) THEN Return(db, r, FALSE)
           ELSE IF r.req \notin DOMAIN db.offers THEN Return(db, r, FALSE)
           ELSE Go(db, [r EXCEPT !.new_status = ~db.offers[r.req].enabled], 273)
      [] r.pc = 273 ->
           Return(IF r.req \in DOMAIN db.offers
                  THEN [db EXCEPT !.offers[r.req].enabled = r.new_status]
                  ELSE db, r, TRUE)

\* ------------------------------------------------ the message half

\* The call of run_postbacks_sequence at line 657: with no pair in
\* zip(postbacks, delays) the loop body never runs and the function
\* returns ([], True, 0) at once.
EnterRun(db, r, site) ==
    LET r1 == [r EXCEPT !.site = site]
    IN  IF Steps(r.run) >= 1 THEN Go(db, r1, 395) ELSE Return(db, r1, TRUE)

\* One blocking operation of the message half of webhook (lines 580-844),
\* the one at line r.pc, with the code that follows it up to the next
\* blocking operation.
MessageStep(db, r) ==
    LET u == r.user
        text == r.text
    IN  CASE r.pc = 587 ->
               IF is_user_banned(db, u) THEN Done(db, [r EXCEPT !.branch = "banned"])
               ELSE Go(db, [r EXCEPT !.site = 590], 70)
          [] r.pc = 595 -> Send(db, r, u, "welcome", 0)
          \* help_mode
          [] r.pc = 607 -> Send(db, r, u, "help_denied", 0)
          [] r.pc = 610 -> Send(db, r, ADMIN_ID, "help_request", 618)
          [] r.pc = 618 -> Send(db, r, u, "help_received", 619)
          [] r.pc = 619 -> Mode(db, r, NoMode, 0)
          \* offer_mode
          [] r.pc = 624 ->
               LET offer_id == r.doc.current_offer_id
               IN  IF offer_id = NoOfferId \/ ~OfferExists(db, offer_id)
               THEN Go(db, r, 627)
               ELSE IF ~validate_url_format(text) THEN Go(db, r, 633)
               ELSE IF extract_clickid_from_url(text) = NoClickId
               THEN Go(db, r, 644)
               ELSE Go(db, [r EXCEPT !.run = NewRun(offer_id, text,
                                                   db.offers[offer_id])], 654)
          [] r.pc = 627 -> Send(db, r, u, "offer_not_found", 628)
          [] r.pc = 628 -> Mode(db, r, NoMode, 0)
          [] r.pc = 633 -> Send(db, r, u, "invalid_url", 0)
          [] r.pc = 644 -> Send(db, r, u, "no_variable", 0)
          [] r.pc = 654 ->
               LET x == Send(db, r, u, "processing", 654)
               IN  EnterRun(x.db, x.r, 657)
          [] r.pc = 671 -> Send(db, r, u, "summary", 680)
          [] r.pc = 680 -> Mode(db, r, NoMode, 681)
          [] r.pc = 681 -> Send(db, r, u, "home", 0)
          \* broadcast_mode
          [] r.pc = 685 ->
               LET all_users == db.joined
               IN  Go(db, [r EXCEPT !.rest = all_users],
                      IF all_users = <<>> THEN 696 ELSE 691)
          [] r.pc = 691 ->
               LET x == Send(db, r, Head(r.rest), "broadcast", 691)
               IN  Go(x.db, [x.r EXCEPT !.rest = Tail(@)],
                      IF Tail(r.rest) = <<>> THEN 696 ELSE 691)
          [] r.pc = 696 -> Send(db, r, u, "broadcast_complete", 704)
          [] r.pc = 704 -> Mode(db, r, NoMode, 0)
          \* ban_mode
          [] r.pc = 711 -> Send(db, r, u, "banned", 717)
          [] r.pc = 713 -> Send(db, r, u, "already_banned", 717)
          [] r.pc = 715 -> Send(db, r, u, "invalid_user_id", 717)
          [] r.pc = 717 -> Mode(db, r, NoMode, 0)
          \* unban_mode
          [] r.pc = 723 ->
               LET x == unban_user(db, r.target)
               IN  Go(x.db, r, IF x.ok THEN 724 ELSE 726)
          [] r.pc = 724 -> Send(db, r, u, "unbanned", 730)
          [] r.pc = 726 -> Send(db, r, u, "not_banned", 730)
          [] r.pc = 728 -> Send(db, r, u, "invalid_user_id", 730)
          [] r.pc = 730 -> Mode(db, r, NoMode, 0)
          \* admin_reply_mode
          [] r.pc = 745 -> Send(db, r, u, "reply_sent", 755)
          [] r.pc = 747 -> Send(db, r, u, "reply_error", 755)
          [] r.pc = 749 -> Send(db, r, u, "invalid_request_id", 755)
          [] r.pc = 751 -> Send(db, r, u, "invalid_format", 755)
          [] r.pc = 755 -> Mode(db, r, NoMode, 0)
          \* offer_delete_mode
          [] r.pc = 761 ->
               LET x == delete_offer(db, TextString(text))
               IN  Go(x.db, [r EXCEPT !.ok = x.ok], 762)
          [] r.pc = 762 ->
               Send(db, r, u, IF r.ok THEN "offer_deleted" ELSE "error", 766)
          [] r.pc = 766 -> Mode(db, r, NoMode, 0)
          \* offer_edit_mode
          [] r.pc = 773 -> Send(db, r, u, "invalid_format", 0)
          [] r.pc = 785 -> Send(db, r, u, "postback_count_error", 0)
          [] r.pc = 799 ->
               LET n == EditPbCount(text)
                   x == edit_offer(db, text[1], text[2], text[3],
                                   SubSeqFrom(text, 4, n),
                                   IntsOf(SubSeqFrom(text, n + 4, n)))
               IN  Go(x.db, [r EXCEPT !.ok = x.ok], 800)
          [] r.pc = 800 ->
               Send(db, r, u, IF r.ok THEN "offer_updated" ELSE "error", 805)
          [] r.pc = 803 -> Send(db, r, u, "error", 805)
          [] r.pc = 805 -> Mode(db, r, NoMode, 0)
          \* offer_create_mode
          [] r.pc = 812 -> Send(db, r, u, "invalid_format", 0)
          [] r.pc = 832 -> Send(db, r, u, "postback_count_error", 0)
          [] r.pc = 838 ->
               LET n == CreatePbCount(text)
                   x == create_offer(db, text[1], text[2],
                                     SubSeqFrom(text, 3, n),
                                     IntsOf(SubSeqFrom(text, n + 3, n)))
               IN  Go(x.db, [r EXCEPT !.ok = x.ok], 839)
          [] r.pc = 839 ->
               Send(db, r, u, IF r.ok THEN "offer_created" ELSE "error", 844)
          [] r.pc = 842 -> Send(db, r, u, "error", 844)
          [] r.pc = 844 -> Mode(db, r, NoMode, 0)

\* ------------------------------------------------ the callback half

\* An admin branch that answers the query, sends a prompt and sets a
\* mode: the three operations at lines first, first + 1 and third.
Prompt(db, r, first, third, tag, mode) ==
    CASE r.pc = first -> Ack(db, r, first + 1)
      [] r.pc = first + 1 -> Send(db, r, r.user, tag, third)
      [] r.pc = third -> Mode(db, r, mode, 0)

\* One blocking operation of the callback half of webhook (lines
\* 846-1207), the one at line r.pc, with the code that follows it up to
\* the next blocking operation.
CallbackStep(db, r) ==
    LET u == r.user
    IN  CASE r.pc = 856 ->
               IF is_user_banned(db, u) THEN Done(db, [r EXCEPT !.branch = "banned"])
               ELSE Go(db, [r EXCEPT !.site = 859], 70)
          [] r.pc = 865 -> Ack(db, r, 866)
          [] r.pc = 866 -> Send(db, r, u, "membership_required", 0)
          [] r.pc = 879 -> Ack(db, r, 881)
          [] r.pc = 881 -> Send(db, r, u, "home", 0)
          [] r.pc = 885 -> Ack(db, r, 517)
          [] r.pc = 517 -> Read(db, r, 886)
          [] r.pc = 886 -> Send(db, r, u, "select_offer", 0)
          \* offer_<id>: ObjectId(offer_id) of get_offer raises on a
          \* malformed id
          [] r.pc = 890 ->
               LET x == Ack(db, r, 892)
               IN  IF ValidObjectId(r.data[2]) THEN x ELSE Raise(x.db, x.r)
          [] r.pc = 892 ->
               Go(db, r, IF OfferExists(db, r.data[2]) THEN 898 ELSE 895)
          [] r.pc = 895 -> Send(db, r, u, "offer_not_found", 0)
          [] r.pc = 898 -> Send(db, r, u, "offer_prompt", 908)
          [] r.pc = 908 ->
               Done(IF u \in DOMAIN db.users
                    THEN [db EXCEPT !.users[u].current_mode = "offer_mode",
                                    !.users[u].current_offer_id = r.data[2]]
                    ELSE db, r)
          [] r.pc = 912 -> Ack(db, [r EXCEPT !.site = 913], 122)
          [] r.pc = 915 -> Send(db, r, u, "help_denied", 0)
          [] r.pc = 917 -> Send(db, r, u, "help_prompt", 924)
          [] r.pc = 924 -> Mode(db, r, "help_mode", 0)
          [] r.pc = 928 -> Ack(db, r, 929)
          [] r.pc = 929 -> Send(db, r, u, "join_channels", 0)
          [] r.pc = 938 ->
               LET x == Ack(db, r, 484)
               IN  Go(x.db, [x.r EXCEPT !.site = 939, !.channel = 1,
                                        !.answers = <<>>], 484)
          [] r.pc = 941 -> Send(db, r, u, "membership_ok", 943)
          [] r.pc = 943 -> Send(db, r, u, "home", 0)
          [] r.pc = 945 -> Send(db, r, u, "membership_missing", 0)
          \* the admin branches
          [] r.pc = 957 -> Ack(db, r, 0)
          [] r.pc = 960 -> Ack(db, r, 961)
          [] r.pc = 961 -> Send(db, r, u, "admin_panel", 0)
          [] r.pc = 972 -> Ack(db, r, 973)
          [] r.pc = 973 -> Read(db, r, 974)
          [] r.pc = 974 -> Read(db, r, 981)
          [] r.pc = 981 -> Read(db, r, 976)
          [] r.pc = 976 -> Send(db, r, u, "stats", 0)
          [] r.pc = 991 -> Ack(db, r, 992)
          [] r.pc = 992 -> Go(db, r, IF DOMAIN db.users # {} THEN 1002 ELSE 1004)
          [] r.pc = 1002 -> Send(db, r, u, "recent_joins", 0)
          [] r.pc = 1004 -> Send(db, r, u, "no_users", 0)
          [] r.pc = 1011 -> Ack(db, r, 1012)
          [] r.pc = 1012 ->
               Go(db, r, IF DOMAIN db.help_requests # {} THEN 1020 ELSE 1022)
          [] r.pc = 1020 -> Send(db, r, u, "help_list", 0)
          [] r.pc = 1022 -> Send(db, r, u, "no_help_requests", 0)
          [] r.pc = 1029 -> Ack(db, r, 1030)
          [] r.pc = 1030 -> Go(db, r, IF Pending(db) # {} THEN 1039 ELSE 1042)
          [] r.pc = 1039 -> Send(db, r, u, "pending_list", 1040)
          [] r.pc = 1040 -> Mode(db, r, "admin_reply_mode", 0)
          [] r.pc = 1042 -> Send(db, r, u, "no_pending", 0)
          [] r.pc \in {1049, 1050, 1056} ->
               Prompt(db, r, 1049, 1056, "broadcast_prompt", "broadcast_mode")
          [] r.pc = 1061 -> Ack(db, r, 0)
          [] r.pc = 1064 -> Ack(db, r, 1065)
          [] r.pc = 1065 -> Send(db, r, u, "manage_offers", 0)
          [] r.pc = 1075 -> Ack(db, r, 0)
          [] r.pc = 1078 -> Ack(db, r, 1079)
          [] r.pc = 1079 ->
               Go(db, r, IF get_all_offers(db) # {} THEN 1090 ELSE 1092)
          [] r.pc = 1090 -> Send(db, r, u, "offer_list", 0)
          [] r.pc = 1092 -> Send(db, r, u, "no_offers", 0)
          [] r.pc = 1097 -> Ack(db, r, 0)
          [] r.pc \in {1100, 1101, 1108} ->
               Prompt(db, r, 1100, 1108, "delete_prompt", "offer_delete_mode")
          [] r.pc = 1113 -> Ack(db, r, 0)
          [] r.pc \in {1116, 1117, 1125} ->
               Prompt(db, r, 1116, 1125, "edit_prompt", "offer_edit_mode")
          [] r.pc = 1132 -> Ack(db, r, 1133)
          [] r.pc = 1133 ->
               LET found == SortedIds(get_all_offers(db), OfferIdSeq)
               IN  Go(db, [r EXCEPT !.rest = found],
                      IF found = <<>> THEN 1152 ELSE 1141)
          [] r.pc = 1141 ->
               Go(db, [r EXCEPT !.rest = Tail(@)],
                  IF Tail(r.rest) = <<>> THEN 1150 ELSE 1141)
          [] r.pc = 1150 -> Send(db, r, u, "analytics", 0)
          [] r.pc = 1152 -> Send(db, r, u, "no_offers", 0)
          [] r.pc \in {1159, 1160, 1166} ->
               Prompt(db, r, 1159, 1166, "ban_prompt", "ban_mode")
          [] r.pc \in {1173, 1174, 1180} ->
               Prompt(db, r, 1173, 1180, "unban_prompt", "unban_mode")
          [] r.pc = 1185 -> Ack(db, r, 0)
          [] r.pc \in {1188, 1189, 1207} ->
               Prompt(db, r, 1188, 1207, "create_prompt", "offer_create_mode")

\* ------------------------------------------------------ direct calls

\* A call fn(...) up to its first blocking operation: the arguments are
\* in the fields of r. An ObjectId(...) inside a try makes the function
\* return False at once on a malformed id, the one of save_submission
\* raises, and the two checks of create_offer come before its insert.
Enter(db, r) ==
    CASE r.fn = "get_or_create_user" -> Go(db, r, 70)
      [] r.fn = "check_channel_membership" -> Go(db, r, 484)
      [] r.fn = "add_help_request" -> Go(db, r, 137)
      [] r.fn = "reply_to_help_request" -> Go(db, r, 172)
      [] r.fn = "can_send_help_request" -> Go(db, r, 122)
      [] r.fn = "create_offer" ->
           IF create_offer(db, "name", "link", r.run.postbacks, r.run.delays).ok
           THEN Go(db, r, 217) ELSE Return(db, r, FALSE)
      [] r.fn = "edit_offer" ->
           IF ValidObjectId(r.req) THEN Go(db, r, 249) ELSE Return(db, r, FALSE)
      [] r.fn = "delete_offer" ->
           IF ValidObjectId(r.req) THEN Go(db, r, 260) ELSE Return(db, r, FALSE)
      [] r.fn = "toggle_offer_status" ->
           IF ValidObjectId(r.req) THEN Go(db, r, 268) ELSE Return(db, r, FALSE)
      [] r.fn = "get_enabled_offers" -> Go(db, r, 239)
      [] r.fn = "run_postbacks_sequence" -> EnterRun(db, r, 0)
      [] r.fn = "save_submission" ->
           IF ValidObjectId(r.run.offer_id) THEN Go(db, r, 285) ELSE Raise(db, r)

\* The one database operation of an offer function called directly.
CallStep(db, r) ==
    CASE r.pc = 217 ->
           LET x == create_offer(db, "name", "link", r.run.postbacks, r.run.delays)
           IN  Return(x.db, r, x.ok)
      [] r.pc = 239 ->
           Return(db, [r EXCEPT !.rest = SortedIds(get_enabled_offers(db), OfferIdSeq)],
                  TRUE)
      [] r.pc = 249 ->
           LET x == edit_offer(db, r.req, "name", "link", r.run.postbacks,
                               r.run.delays)
           IN  Return(x.db, r, x.ok)
      [] r.pc = 260 ->
           LET x == delete_offer(db, r.req)
           IN  Return(x.db, r, x.ok)

\* ------------------------------------------------------------ steps

\* The lines of the blocking operations of run_postbacks_sequence.
PcRun == {395, 367, 410, 425, 426}

\* The blocking operation at line r.pc of thread r, executed on the
\* database db on the day 'day'; outcome is how requests.get ends and
\* answer what getChatMember answers, for the two operations that have
\* an answer from outside.
Exec(db, r, day, outcome, answer) ==
    CASE r.pc \in {70, 75, 87, 88} -> get_or_create_user(db, r)
      [] r.pc \in {102, 103} -> ban_user(db, r)
      [] r.pc \in {122, 126} -> can_send_help_request(db, r, day)
      [] r.pc \in {137, 138, 145, 150, 143, 148, 157, 153} ->
           add_help_request(db, r, day)
      [] r.pc \in {172, 176, 191} -> reply_to_help_request(db, r)
      [] r.pc = 484 -> check_channel_membership(db, r, answer)
      [] r.pc \in PcRun -> run_postbacks_sequence(db, r, outcome)
      [] r.pc \in {285, 300} -> save_submission(db, r)
      [] r.pc \in {268, 273} -> toggle_offer_status(db, r)
      [] r.pc \in {217, 239, 249, 260} -> CallStep(db, r)
      [] r.kind = "message" -> MessageStep(db, r)
      [] r.kind = "callback" -> CallbackStep(db, r)

NoOutcome == CHOOSE o \in AllOutcomes : o.kind = "connection_error"

\* A thread whose run has begun and whose submission is not yet stored.
InRun(r) == r.run.url # EmptyText /\ r.pc \notin {0, 300, 671, 680, 681}

RunsAndSubmissions(db, ths) ==
    Len(db.submissions) + Cardinality({t \in DOMAIN ths : InRun(ths[t])})

\* The bounds of the exploration: a step that would take the help
\* requests, the offers created or the runs begun past them is not taken.
WithinBounds(db, ths) ==
    /\ IF DOMAIN db.help_requests = DOMAIN help_requests THEN TRUE
       ELSE Cardinality(DOMAIN db.help_requests) <= MaxHelpRequests
    /\ IF db.oids = oids THEN TRUE ELSE db.oids - InitOids <= MaxCreated
    /\ IF RunsAndSubmissions(db, ths) <= RunsAndSubmissions(DB, threads) THEN TRUE
       ELSE RunsAndSubmissions(db, ths) <= MaxSubmissions

NoThread == NewThread("init", 0, EmptyText, <<"">>)

\* The state after thread t made the step with result x: a thread that
\* returned leaves threads and its record becomes last; clear says
\* whether t has just arrived (the record of the thread that returned
\* before is dropped then).
Apply(t, x, clear) ==
    LET ths == IF x.r.pc = 0
               THEN [s \in DOMAIN threads \ {t} |-> threads[s]]
               ELSE [s \in DOMAIN threads \cup {t} |->
                        IF s = t THEN x.r ELSE threads[s]]
    IN  /\ WithinBounds(x.db, ths)
        /\ users' = x.db.users
        /\ joined' = x.db.joined
        /\ banned' = x.db.banned
        /\ offers' = x.db.offers
        /\ submissions' = x.db.submissions
        /\ help_requests' = x.db.help_requests
        /\ oids' = x.db.oids
        /\ threads' = ths
        /\ last' = IF x.r.pc = 0 THEN x.r ELSE IF clear THEN NoThread ELSE last
        /\ serial' = IF clear THEN serial /\ threads = <<>> ELSE serial
        /\ UNCHANGED today

\* The lowest thread number not in use.
Free == CHOOSE t \in 1..MaxInFlight :
            t \notin DOMAIN threads /\ \A s \in 1..(t - 1) : s \in DOMAIN threads

\* A message with the text 'text' from user u arrives: its thread stands
\* before the is_user_banned of line 587.
ReceiveMessage(u, text) ==
    /\ Cardinality(DOMAIN threads) < MaxInFlight
    /\ Apply(Free, Go(DB, NewThread("message", u, text, <<"">>), 587), TRUE)

\* A callback query of user u with callback_data 'data' arrives: line 856.
ReceiveCallback(u, data) ==
    /\ Cardinality(DOMAIN threads) < MaxInFlight
    /\ Apply(Free, Go(DB, NewThread("callback", u, EmptyText, data), 856), TRUE)

\* The function r0.fn is called with the arguments in r0.
Call(r0) ==
    /\ Cardinality(DOMAIN threads) < MaxInFlight
    /\ Apply(Free, Enter(DB, r0), TRUE)

\* Thread t executes its next blocking operation.
Step(t) ==
    /\ t \in DOMAIN threads
    /\ threads[t].pc \notin {367, 484}
    /\ Apply(t, Exec(DB, threads[t], today, NoOutcome, "member"), FALSE)

\* The requests.get of thread t ends with outcome.
StepGet(t, outcome) ==
    /\ t \in DOMAIN threads
    /\ threads[t].pc = 367
    /\ Apply(t, Exec(DB, threads[t], today, outcome, "member"), FALSE)

\* getChatMember answers the call of thread t.
StepMember(t, answer) ==
    /\ t \in DOMAIN threads
    /\ threads[t].pc = 484
    /\ Apply(t, Exec(DB, threads[t], today, NoOutcome, answer), FALSE)

\* Midnight UTC passes.
Tick ==
    /\ today < MaxDay
    /\ today' = today + 1
    /\ UNCHANGED <<dbvars, threads, last, serial>>

\* ---------------------------------------------------------- events

\* The callback_data of the buttons the keyboards show, of an offer that
\* does not exist, of the two ids of line 862, and of no button at all.
CallbackData ==
    { <<"home">>, <<"offers">>, <<"help">>, <<"join_channel">>,
      <<"check_membership">>, <<"admin_panel">>, <<"admin_stats">>,
      <<"admin_recent_joins">>, <<"admin_help_requests">>,
      <<"admin_reply_mode">>, <<"admin_broadcast">>, <<"admin_manage_offers">>,
      <<"admin_offer_analytics">>, <<"admin_ban">>, <<"admin_unban">>,
      <<"offer_", "create">>, <<"offer_", "edit">>, <<"offer_", "delete">>,
      <<"offer_", "list">>, <<"offer_", "offer18">>, <<"offer_", "second">>,
      <<"offer_", "o1">>, <<"offer_", "o2">>, <<"offer_", "o4">>, <<"bogus">> }

\* The outcomes of an HTTP call and the provider answers the slices
\* explore.
MainOutcomes ==
    {o \in AllOutcomes : o.kind = "timeout"
                         \/ (o.kind = "response" /\ o.status = 200 /\ o.body_len = 500)}

MainAnswers == {"member", "left", "error"}

\* A database that holds the seeded offer and the operator's record, the
\* operator being in mode m; no request in flight.
InitWith(m) ==
    /\ users = [u \in {ADMIN_ID} |-> [NewUser EXCEPT !.current_mode = m]]
    /\ joined = <<ADMIN_ID>>
    /\ banned = {}
    /\ offers = InitOffers
    /\ submissions = <<>>
    /\ help_requests = <<>>
    /\ oids = InitOids
    /\ today = 0
    /\ threads = <<>>
    /\ last = NoThread
    /\ serial = TRUE

Init == InitWith(NoMode)

ThreadIds == 1..MaxInFlight

Members == UserIds \ {ADMIN_ID}

\* ------------------------------------------------------------------
\* Spec: a user who presses every button but Help and sends texts that
\* start no run, the requests handled side by side. The database holds
\* the user's record and a help request the user sent earlier in the day.
InitAsked ==
    /\ users = [u \in UserIds |->
                  IF u = ADMIN_ID THEN NewUser
                  ELSE [NewUser EXCEPT !.help_requests_today = 1,
                                       !.last_help_request_date = 0]]
    /\ joined = SortedIds(UserIds, <<1, 2>>)
    /\ banned = {}
    /\ offers = InitOffers
    /\ submissions = <<>>
    /\ help_requests = [h \in {HelpIdSeq[1]} |->
                          [user_id |-> CHOOSE u \in Members : TRUE, created_at |-> 0,
                           admin_reply |-> <<>>, replied |-> FALSE,
                           status |-> "pending"]]
    /\ oids = InitOids
    /\ today = 0
    /\ threads = <<>>
    /\ last = NoThread
    /\ serial = TRUE

Next ==
    \/ \E u \in Members,
          text \in {<<"/start">>, <<"hello">>, <<"2">>, <<"h1", "thanks">>,
                    <<"https://x.test/">>} :
          ReceiveMessage(u, text)
    \/ \E u \in Members, data \in CallbackData \ {<<"help">>} :
          ReceiveCallback(u, data)
    \/ \E t \in ThreadIds : Step(t)
    \/ \E t \in ThreadIds, answer \in MainAnswers : StepMember(t, answer)

Spec == InitAsked /\ [][Next]_vars

\* ------------------------------------------------------------------
\* SpecBan: an operator who bans, unbans and broadcasts, beside a user
\* who writes, presses Home and picks an offer, the requests handled side
\* by side.
NextBan ==
    \/ \E text \in {<<"1">>, <<"2">>, <<"hello">>} : ReceiveMessage(ADMIN_ID, text)
    \/ \E data \in {<<"admin_ban">>, <<"admin_unban">>, <<"admin_broadcast">>} :
          ReceiveCallback(ADMIN_ID, data)
    \/ \E u \in Members, text \in {<<"hello">>} : ReceiveMessage(u, text)
    \/ \E u \in Members, data \in {<<"home">>, <<"offer_", "o1">>} :
          ReceiveCallback(u, data)
    \/ \E t \in ThreadIds : Step(t)

SpecBan == Init /\ [][NextBan]_vars

\* The threads in flight, and those with the one that returned last.
InFlight == {threads[t] : t \in DOMAIN threads}

Records == InFlight \cup {last}

\* run_postbacks_sequence has returned to the handler of thread r.
RunReturned(r) == r.site = 665

HasSent(r, tag) == \E k \in 1..Len(r.sent) : r.sent[k].tag = tag

\* ------------------------------------------------------------------
\* SpecRun: one request from the moment its handler has accepted a URL
\* (get_offer of line 624 has returned the offer), over the offers create
\* and edit messages can store (1..MaxSteps templates, as many delays,
\* each any integer) and every outcome of each call.
RunDelays == {-1, 0, 2}

RunTemplates == {TemplateA, TemplateB}

RunUrls == {<<"https://x.test/?clickid=abc123">>, <<"https://x.test/?tid=xyz789">>,
            <<"https://x.test/?tid=xyz789&clickid=abc123">>,
            <<"https://x.test/?clickid=&tid=xyz789">>}

RunOutcomes ==
    {o \in AllOutcomes : \/ o.kind # "response"
                         \/ o.status = 200 /\ o.body_len = 500
                         \/ o.status = 404 /\ o.body_len = 501
                         \/ o.status = 503 /\ o.body_len = 500}

RunUser == 2

InitRun ==
    /\ \E n \in 1..MaxSteps :
         \E pbs \in [1..n -> RunTemplates], ds \in [1..n -> RunDelays], url \in RunUrls :
            LET offer == [SeedOffer EXCEPT !.postbacks = pbs, !.delays = ds]
                doc == [NewUser EXCEPT !.current_mode = "offer_mode",
                                       !.current_offer_id = "o1"]
            IN  /\ offers = [o \in {"o1"} |-> offer]
                /\ users = [u \in {ADMIN_ID, RunUser} |->
                              IF u = RunUser THEN doc ELSE NewUser]
                /\ threads = [t \in {1} |->
                                [NewThread("message", RunUser, url, <<"">>)
                                   EXCEPT !.pc = 654, !.site = 590,
                                          !.branch = "offer_mode", !.doc = doc,
                                          !.run = NewRun("o1", url, offer)]]
    /\ joined = <<ADMIN_ID, RunUser>>
    /\ banned = {}
    /\ submissions = <<>>
    /\ help_requests = <<>>
    /\ oids = InitOids
    /\ today = 0
    /\ last = NoThread
    /\ serial = TRUE

NextRun ==
    \/ \E t \in DOMAIN threads : Step(t)
    \/ \E t \in DOMAIN threads, outcome \in RunOutcomes : StepGet(t, outcome)

SpecRun == InitRun /\ [][NextRun]_vars

\* =================================================================
\* Properties of run_postbacks_sequence and send_postback (SpecRun)

\* C2: the HTTP calls of a run are issued strictly in template order, and
\* the call of step k+1 is issued only after step k has its result
\* recorded (succeeded or failed) and the delay of step k has been slept.
C2_CallsInOrder ==
    \A r \in Records :
        /\ r.run.calls = [k \in 1..Len(r.run.calls) |-> k]
        /\ \A k \in 2..Len(r.run.calls) :
              /\ Len(r.run.postback_responses) >= k - 1
              /\ r.run.postback_responses[k - 1].postback_num = k - 1
              /\ (k - 1) \in r.run.slept

\* A second call has gone out after a first step with a positive delay.
C2_Witness ==
    \E r \in InFlight :
        /\ r.run.calls = <<1, 2>>
        /\ r.run.delays[1] > 0
        /\ r.pc = 367

AllStepsSucceeded(responses) ==
    \A k \in 1..Len(responses) : responses[k].success

\* C5: the success flag run_postbacks_sequence returns, and the one stored
\* in the Submission, is the conjunction of the success flags of the
\* recorded step results.
C5_AllSuccessIsConjunction ==
    /\ \A r \in Records :
          RunReturned(r) =>
             (r.run.all_success <=> AllStepsSucceeded(r.run.postback_responses))
    /\ \A j \in 1..Len(submissions) :
          submissions[j].success <=> AllStepsSucceeded(submissions[j].postback_responses)

\* A stored run whose first step failed and whose last step succeeded.
C5_Witness ==
    \E j \in 1..Len(submissions) :
        /\ Len(submissions[j].postback_responses) = 2
        /\ ~submissions[j].postback_responses[1].success
        /\ submissions[j].postback_responses[2].success
        /\ ~submissions[j].success

\* C6: a step is recorded as succeeded exactly when an HTTP response was
\* received, whatever its status code, and as failed exactly when the call
\* timed out, could not connect or raised another exception.
C6_SuccessIffResponse ==
    \A r \in Records :
        \A k \in 1..Len(r.run.postback_responses) :
            /\ r.run.postback_responses[k].success <=> r.run.outcomes[k] = "response"
            /\ ~r.run.postback_responses[k].success <=>
                  r.run.outcomes[k] \in {"timeout", "connection_error", "other"}

\* A 503 answer recorded as a success beside a timeout recorded as a failure.
C6_Witness ==
    \E r \in Records :
        /\ Len(r.run.postback_responses) = 2
        /\ r.run.postback_responses[1].status_code = 503
        /\ r.run.postback_responses[1].success
        /\ r.run.outcomes[2] = "timeout"
        /\ ~r.run.postback_responses[2].success

\* =================================================================
\* The token of a run and the total time (SpecRun)

\* The query parameters of a submitted URL, as name/value pairs in order:
\* a name given without a value is no parameter.
QueryParameters(url) == parse_qs(urlparse(TextString(url)).query)

\* The value of the parameter named clickid where the URL has one,
\* otherwise the value of its first parameter.
TokenOf(url) ==
    LET q == QueryParameters(url)
        named == {k \in 1..Len(q) : q[k][1] = "clickid"}
    IN  IF named # {} THEN q[CHOOSE k \in named : \A j \in named : k <= j][2]
        ELSE q[1][2]

\* C23: the token of a run is the value of the clickid parameter of the
\* submitted URL if it has one, otherwise the value of its first parameter;
\* the URL called at each step is the step's template with $clickid
\* replaced by that token; the Submission stores that token; and a request
\* that has run a one-step offer to its end made exactly one call.
C23_TokenExtractedAndUsed ==
    /\ \A r \in Records :
         r.run.url # EmptyText =>
             /\ r.run.clickid = TokenOf(r.run.url)
             /\ \A k \in 1..Len(r.run.postback_responses) :
                   r.run.postback_responses[k].postback_url =
                       ReplaceClickid(r.run.postbacks[k], TokenOf(r.run.url))
             /\ (r.http = 200 /\ Len(r.run.postbacks) = 1) => Len(r.run.calls) = 1
    /\ \A n \in 1..Len(submissions) :
         submissions[n].extracted_clickid = TokenOf(submissions[n].submitted_url)

\* A one-step run on a URL whose first parameter is not clickid has ended
\* and its Submission is stored.
C23_Witness ==
    /\ Len(submissions) = 1
    /\ submissions[1].submitted_url = <<"https://x.test/?tid=xyz789&clickid=abc123">>
    /\ submissions[1].extracted_clickid = "abc123"
    /\ last.http = 200 /\ Len(last.run.postbacks) = 1
    /\ last.run.postback_responses[1].postback_url = <<"https://cb.test/?tid=", "abc123">>

\* The '$name' pieces of the templates of the model.
Placeholders == {"$clickid", "$myvar"}

\* C24: in the URL called at a step, every $variable placeholder of the
\* step's template, whatever its name, stands replaced by the value
\* extracted from the user's URL.
C24_AnyVariableReplaced ==
    \A r \in Records :
        \A k \in 1..Len(r.run.postback_responses) :
           LET called == r.run.postback_responses[k].postback_url
               pieces == Pieces(r.run.postbacks[k])
           IN  \A i \in 1..Len(pieces) :
                  pieces[i] \in Placeholders => called[i] = r.run.clickid

\* The latency of each recorded step plus the delay configured for it, in
\* milliseconds.
StepTimes(run) ==
    [k \in 1..Len(run.postback_responses) |->
        run.postback_responses[k].execution_time_ms + run.delays[k] * 1000]

\* C26: the total time run_postbacks_sequence returns, and the one stored
\* in the Submission, is the sum over the steps of the run of the step's
\* call latency in milliseconds plus the step's delay in seconds times 1000.
C26_TotalTimeIsSum ==
    \A r \in Records :
        RunReturned(r) =>
            /\ Len(r.run.postback_responses) = Steps(r.run)
            /\ r.run.total_time = SeqSum(StepTimes(r.run))
            /\ r.pc # 285 =>
                  submissions[Len(submissions)].total_execution_time_ms =
                      SeqSum(StepTimes(r.run))

\* A two-step run has ended whose steps took 120 ms each and whose delays
\* are 2 s each: the total is 120 + 2000 + 120 + 2000.
C26_Witness ==
    /\ last.http = 200
    /\ last.run.delays = <<2, 2>>
    /\ last.run.outcomes = <<"response", "response">>
    /\ last.run.total_time = 4240
    /\ Len(submissions) = 1 /\ submissions[1].total_execution_time_ms = 4240

\* =================================================================
\* The body kept and the waiting notice (SpecRun)

\* C27: the response body kept in a step result is never longer than 500
\* characters, whatever the length of the body received.
C27_BodyAtMostLimit ==
    \A r \in Records :
        \A k \in 1..Len(r.run.postback_responses) :
            r.run.postback_responses[k].response.len <= BodyLimit

\* C28: after the progress message of a step, the 'waiting' notice is sent
\* exactly when the step is not the last one and its delay is not zero: a
\* request stands before the notice (line 425) only then, and stands there
\* whenever the step whose progress message it has just sent is such a step.
C28_WaitingOnlyForDelay ==
    \A r \in InFlight :
        r.pc = 425 =>
            (r.run.i < Len(r.run.postbacks) /\ r.run.delays[r.run.i] # 0)

\* =================================================================
\* Termination of a run (SpecRunFair)

\* SpecRun with the request thread always scheduled again: every HTTP call
\* returns or hits its timeout, every sleep ends.
SpecRunFair == SpecRun /\ WF_vars(NextRun)

\* C33: every run that has started completes: all its steps are recorded,
\* the Submission is written, the summary is sent and the user's mode is
\* none again.
C33_RunCompletes ==
    (\E r \in InFlight : r.pc = 654)
       ~> ( /\ threads = <<>>
            /\ last.http = 200
            /\ Len(last.run.postback_responses) = Steps(last.run)
            /\ Len(submissions) = 1
            /\ HasSent(last, "summary")
            /\ users[RunUser].current_mode = NoMode )

\* The thread that makes the step, and the thread that arrives in it.
Acting(t) ==
    /\ t \in DOMAIN threads
    /\ t \notin DOMAIN threads' \/ threads'[t] # threads[t]

Arriving(t) == t \notin DOMAIN threads /\ t \in DOMAIN threads'

\* The offer-management modes, which no button of this version can set
\* (CallbackRoute sends their buttons to the offer_select branch): a
\* database in which the operator's record holds one was left so by
\* another version of the service.
InitManaging ==
    \E m \in {"offer_delete_mode", "offer_edit_mode", "offer_create_mode"} :
       InitWith(m)

\* ------------------------------------------------------------------
\* SpecSubmit: a user who picks the seeded offer and submits URLs, while
\* the operator edits or deletes that offer; an update arrives whatever
\* the other request is doing.
NextSubmit ==
    \/ \E text \in {<<"o1", "Neg", "https://x.test", TemplateA, TemplateB, "-1", "0">>,
                     <<"o1">>} :
          ReceiveMessage(ADMIN_ID, text)
    \/ \E u \in Members,
          text \in {<<"https://x.test/?clickid=abc123">>, <<"hello">>,
                    <<"https://x.test/">>} :
          ReceiveMessage(u, text)
    \/ \E u \in Members, data \in {<<"offer_", "o1">>} : ReceiveCallback(u, data)
    \/ \E t \in DOMAIN threads : Step(t)
    \/ \E t \in DOMAIN threads, outcome \in MainOutcomes : StepGet(t, outcome)

SpecSubmit == InitManaging /\ [][NextSubmit]_vars

\* =================================================================
\* Properties of the submission of a URL (SpecSubmit)

\* The request r began a run and the run has ended: it returned to the
\* handler or it raised.
RunEnded(r) == r.run.url # EmptyText /\ (RunReturned(r) \/ r.raised)

\* C3: a run that has ended, for an offer with N templates, has issued all
\* N HTTP calls and holds exactly N step results, one per step in order,
\* whatever steps failed.
C3_AllStepsRun ==
    \A r \in Records :
        RunEnded(r) =>
            /\ r.run.calls = [k \in 1..Len(r.run.postbacks) |-> k]
            /\ Len(r.run.postback_responses) = Len(r.run.postbacks)
            /\ \A k \in 1..Len(r.run.postback_responses) :
                  r.run.postback_responses[k].postback_num = k

CountersUnchanged ==
    \A o \in DOMAIN offers \cap DOMAIN offers' :
        OfferCounters(offers'[o]) = OfferCounters(offers[o])

\* C4: a run that completes passes the insert_one and the update_one of
\* save_submission once each. The first appends exactly one Submission,
\* of that user, offer and result; the second adds exactly 1 to
\* total_submissions of the offer and 1 to its success_count exactly when
\* the run's success flag is true (the offer being still stored); no other
\* step writes a Submission or changes a counter.
C4_OneSubmissionOneIncrement ==
    [][ \A t \in ThreadIds :
          /\ Acting(t) =>
               LET r == threads[t]
               IN  CASE r.pc = 285 ->
                          LET doc == submissions'[Len(submissions')]
                          IN  /\ Len(submissions') = Len(submissions) + 1
                              /\ SubSeq(submissions', 1, Len(submissions)) = submissions
                              /\ doc.user_id = r.user /\ doc.offer_id = r.run.offer_id
                              /\ doc.success = r.run.all_success
                              /\ doc.postback_responses = r.run.postback_responses
                              /\ offers' = offers
                      [] r.pc = 300 ->
                          /\ submissions' = submissions
                          /\ DOMAIN offers' = DOMAIN offers
                          /\ \A o \in DOMAIN offers :
                                OfferCounters(offers'[o]) =
                                   IF o = r.run.offer_id
                                   THEN <<offers[o].total_submissions + 1,
                                          offers[o].success_count
                                             + (IF r.run.all_success THEN 1 ELSE 0)>>
                                   ELSE OfferCounters(offers[o])
                      [] OTHER -> submissions' = submissions /\ CountersUnchanged
          /\ Arriving(t) => (submissions' = submissions /\ CountersUnchanged)
      ]_vars

\* A run with a failed step has completed: one Submission, one submission
\* counted, no success counted.
C4_Witness ==
    /\ last.http = 200 /\ RunReturned(last)
    /\ Len(submissions) = 1
    /\ ~submissions[1].success
    /\ "o1" \in DOMAIN offers
    /\ OfferCounters(offers["o1"]) = <<1, 0>>

\* ThreadPoolExecutor(max_workers=5) of line 64.
max_workers == 5

\* C22: a run executes on a worker of the pool and not inside the request
\* that received the URL: no request stands inside run_postbacks_sequence
\* (the request has returned its 200 before the calls go out), and at most
\* max_workers runs are in progress.
C22_RunOnPoolWorker ==
    /\ \A r \in InFlight : r.kind = "message" => r.pc \notin PcRun
    /\ Cardinality({t \in DOMAIN threads : InRun(threads[t])}) <= max_workers

\* ------------------------------------------------------------------
\* SpecHelp: the Help presses and help messages of one user, one request
\* thread each, as the threaded server of line 1238 runs them: an update
\* arrives whatever the other request is doing, and midnight passes at
\* any moment. The provider finds the user in both channels.
HelpTexts == {<<"hello">>}

HelpData == {<<"help">>}

RaceAnswers == {"member"}

NextHelp ==
    \/ \E u \in Members, text \in HelpTexts : ReceiveMessage(u, text)
    \/ \E u \in Members, data \in HelpData : ReceiveCallback(u, data)
    \/ \E t \in ThreadIds : Step(t)
    \/ \E t \in ThreadIds, answer \in RaceAnswers : StepMember(t, answer)
    \/ Tick

SpecHelp == Init /\ [][NextHelp]_vars

\* =================================================================
\* Properties of the help quota (SpecHelp)

\* The help requests of user u recorded on the current UTC date.
RecordedToday(u) ==
    Cardinality({h \in DOMAIN help_requests :
                    help_requests[h].user_id = u /\ help_requests[h].created_at = today})

\* Thread t goes from the line 'from' to the line 'to' in this step.
Moves(t, from, to) ==
    /\ Acting(t) /\ threads[t].pc = from
    /\ t \in DOMAIN threads' /\ threads'[t].pc = to

\* The help requests of user u, of any date.
RecordedEver(u) ==
    Cardinality({h \in DOMAIN help_requests : help_requests[h].user_id = u})

\* C7: as long as the requests are handled one at a time (serial),
\* pressing Help and sending the help text are denied exactly when the
\* user has HelpLimit requests recorded on the current UTC date; with
\* fewer the text is allowed and recorded as one request, and the first
\* request of a date that is handled on that date leaves the counter
\* at 1.
C7_HelpQuota ==
    [][ \A t \in ThreadIds :
          (serial /\ Acting(t)) =>
            LET r == threads[t]
                u == r.user
            IN  /\ (r.kind = "callback" /\ r.pc = 126)
                      => (Moves(t, 126, 915) <=> RecordedToday(u) = HelpLimit)
                /\ r.kind = "callback" => help_requests' = help_requests
                /\ (r.kind = "message" /\ r.pc = 126)
                      => /\ Moves(t, 126, 607) <=> RecordedToday(u) = HelpLimit
                         /\ Moves(t, 126, 137) <=> RecordedToday(u) < HelpLimit
                /\ r.pc \in {122, 126, 607} => help_requests' = help_requests
                /\ r.pc = 153
                      => /\ RecordedEver(u)' = RecordedEver(u) + 1
                         /\ (r.day = today /\ RecordedToday(u) = 0)
                               => users[u].help_requests_today = 1 ]_vars

\* =================================================================
\* Properties of the whole bot (Spec)

\* The record of thread t after the step it makes, and the messages it
\* sends in the step.
After(t) == IF t \in DOMAIN threads' THEN threads'[t] ELSE last'

SentInStep(t) ==
    SubSeq(After(t).sent, Len(threads[t].sent) + 1, Len(After(t).sent))

ModeHandlers ==
    {"help_mode", "offer_mode", "broadcast_mode", "ban_mode", "unban_mode",
     "admin_reply_mode", "offer_delete_mode", "offer_edit_mode",
     "offer_create_mode"}

\* C1: when the handling of a free-text message by one of the mode
\* handlers has finished (the request has returned, after the run if it
\* started one), the sender's current_mode is none.
C1_ModeReleased ==
    (last.kind = "message" /\ last.branch \in ModeHandlers /\ last.http # 0)
       => users[last.user].current_mode = NoMode

ProtectedReplies == {"offer_prompt", "processing", "help_received"}

\* C8: an entry into offer-submission mode (the prompt for the URL), the
\* start of a run (the processing notice) and the recording of a help
\* request (its confirmation) happen only in a request whose membership
\* check has passed.
C8_GateBeforeProtected ==
    \A r \in Records :
        \A i \in 1..Len(r.sent) :
            r.sent[i].tag \in ProtectedReplies => r.gate = "pass"

\* C9: the handling of a message or button press of a user who has a ban
\* record sends nothing, acknowledges nothing and changes no collection:
\* the arrival of an update changes no collection, and the ban check, the
\* first operation of the handler, ends the request of a user with a ban
\* record.
C9_BannedIgnored ==
    [][ \A t \in ThreadIds :
          /\ Arriving(t) => UNCHANGED dbvars
          /\ ( /\ Acting(t)
               /\ threads[t].pc \in {587, 856}
               /\ threads[t].user \in banned )
             => /\ t \notin DOMAIN threads'
                /\ last'.http = 200
                /\ last'.sent = <<>>
                /\ last'.acks = 0
                /\ UNCHANGED dbvars ]_vars

\* A banned user who was in offer mode has sent a message.
C9_Witness ==
    /\ last.kind = "message"
    /\ last.branch = "banned"
    /\ last.user \in banned
    /\ last.user \in DOMAIN users
    /\ users[last.user].current_mode = "offer_mode"

\* An offer without its two counters.
Definition(offer) ==
    [f \in DOMAIN offer \ {"total_submissions", "success_count"} |-> offer[f]]

\* C10: no step of the handling of an event of a user other than the
\* operator creates, changes or deletes an offer (the counters of a run
\* apart), changes the ban records, sends a broadcast or a support reply,
\* changes a stored help request, or leaves a user other than the operator
\* in an admin-only mode.
C10_AdminOnly ==
    [][ \A t \in ThreadIds :
          (Acting(t) /\ threads[t].user # ADMIN_ID)
           => /\ DOMAIN offers' = DOMAIN offers
              /\ \A o \in DOMAIN offers : Definition(offers'[o]) = Definition(offers[o])
              /\ banned' = banned
              /\ \A i \in 1..Len(SentInStep(t)) :
                    SentInStep(t)[i].tag \notin {"broadcast", "support_reply"}
              /\ \A h \in DOMAIN help_requests :
                    h \in DOMAIN help_requests' /\ help_requests'[h] = help_requests[h]
              /\ \A u \in DOMAIN users' :
                    u # ADMIN_ID => users'[u].current_mode \notin AdminModes ]_vars

\* A user other than the operator has pressed the ban button and is in no mode.
C10_Witness ==
    /\ last.kind = "callback"
    /\ last.branch = "admin_ban"
    /\ last.user # ADMIN_ID
    /\ last.http = 200
    /\ last.acks = 0 /\ last.sent = <<>>
    /\ users[last.user].current_mode = NoMode

\* C18: no step of a request sends a message to a user who has a ban
\* record: no broadcast, no support reply, no message of a request or run
\* still in progress (stated for the users the operator bans, the
\* operator's own id apart).
C18_NothingSentToBanned ==
    [][ \A t \in ThreadIds :
          Acting(t) =>
             \A i \in 1..Len(SentInStep(t)) :
                SentInStep(t)[i].to \notin banned \ {ADMIN_ID} ]_vars

\* C19: every request that has returned has returned the status 200,
\* whatever happened in its handling.
C19_AlwaysAcknowledged ==
    (last.kind \in {"message", "callback"} /\ last.http # 0)
       => last.http = 200

\* C35: the operator's user id never has a ban record, so the operator's
\* events are always processed.
C35_OperatorNeverBanned ==
    /\ ADMIN_ID \notin banned
    /\ (last.kind \in {"message", "callback"} /\ last.user = ADMIN_ID)
          => last.branch # "banned"

\* C36: after a user, in whatever mode, has pressed Home or sent /start
\* and the event has been handled, the user's mode is none.
C36_HomeLeavesMode ==
    (last.http = 200 /\ last.branch \in {"home", "start"})
       => users[last.user].current_mode = NoMode

\* ------------------------------------------------------------------
\* SpecOffers: the offer registry called directly (create_offer,
\* edit_offer, delete_offer, toggle_offer_status, get_enabled_offers,
\* save_submission) and run_postbacks_sequence called directly, with
\* lists of the lengths around the limits and ids that are stored, never
\* stored and malformed, the calls made side by side.
ListLengths == {0, 1, MaxPostbacks, MaxPostbacks + 1}

TemplateLists == {[i \in 1..n |-> TemplateA] : n \in ListLengths}

\* For each list of postbacks the delay lists of the same length and of
\* the length MaxPostbacks.
DelayLists(postbacks) ==
    {[i \in 1..n |-> 0] : n \in {Len(postbacks), MaxPostbacks}}

NeverStoredId == OfferIdSeq[Len(OfferIdSeq)]

CallOfferIds == {"o1", NeverStoredId, "create"}

\* The updates edit_offer is given: lists within the rules, and an empty
\* postback list beside one delay.
EditLists ==
    { <<[i \in 1..1 |-> TemplateB], [i \in 1..1 |-> 0]>>,
      <<[i \in 1..0 |-> TemplateB], [i \in 1..1 |-> 0]>> }

\* A direct call of the function fn on behalf of user u, its arguments
\* still to be filled in.
CallOf(fn, u) == [NewThread("call", u, EmptyText, <<"">>) EXCEPT !.fn = fn]

CallCreateOffer(postbacks, delays) ==
    Call([CallOf("create_offer", ADMIN_ID) EXCEPT
                  !.run.postbacks = postbacks, !.run.delays = delays])

CallEditOffer(offer_id, postbacks, delays) ==
    Call([CallOf("edit_offer", ADMIN_ID) EXCEPT
                  !.req = offer_id,
                  !.run.postbacks = postbacks, !.run.delays = delays])

CallDeleteOffer(offer_id) ==
    Call([CallOf("delete_offer", ADMIN_ID) EXCEPT !.req = offer_id])

CallToggleOfferStatus(offer_id) ==
    Call([CallOf("toggle_offer_status", ADMIN_ID) EXCEPT !.req = offer_id])

CallGetEnabledOffers == Call(CallOf("get_enabled_offers", ADMIN_ID))

\* save_submission(user_id, username, offer_id, url, clickid, [], success, 0)
CallSaveSubmission(u, offer_id, success) ==
    Call([CallOf("save_submission", u) EXCEPT
                  !.run = [NoRun EXCEPT
                              !.offer_id = offer_id,
                              !.url = <<"https://x.test/?clickid=abc123">>,
                              !.clickid = "abc123",
                              !.all_success = success]])

\* Lists for run_postbacks_sequence of which one or the other is empty,
\* and a pair of one step.
CallRunLists ==
    { <<[i \in 1..0 |-> TemplateA], [i \in 1..1 |-> 0]>>,
      <<[i \in 1..1 |-> TemplateA], [i \in 1..0 |-> 0]>>,
      <<[i \in 1..1 |-> TemplateA], [i \in 1..1 |-> 0]>> }

\* run_postbacks_sequence(clickid, postbacks, delays, user_id)
CallRunPostbacksSequence(u, postbacks, delays) ==
    Call([CallOf("run_postbacks_sequence", u) EXCEPT
                  !.run = [NoRun EXCEPT
                              !.offer_id = "o1",
                              !.url = <<"https://x.test/?clickid=abc123">>,
                              !.clickid = "abc123",
                              !.postbacks = postbacks, !.delays = delays]])

NextOffers ==
    \/ \E postbacks \in TemplateLists :
          \E delays \in DelayLists(postbacks) : CallCreateOffer(postbacks, delays)
    \/ \E offer_id \in CallOfferIds, lists \in EditLists :
          CallEditOffer(offer_id, lists[1], lists[2])
    \/ \E offer_id \in CallOfferIds : CallDeleteOffer(offer_id)
    \/ \E offer_id \in CallOfferIds : CallToggleOfferStatus(offer_id)
    \/ CallGetEnabledOffers
    \/ \E success \in BOOLEAN : CallSaveSubmission(RunUser, "o1", success)
    \/ \E lists \in CallRunLists : CallRunPostbacksSequence(RunUser, lists[1], lists[2])
    \/ \E t \in ThreadIds : Step(t)
    \/ \E t \in ThreadIds, outcome \in MainOutcomes : StepGet(t, outcome)

SpecOffers == Init /\ [][NextOffers]_vars

\* ------------------------------------------------------------------
\* SpecEdited: edit_offer called directly for the seeded offer, beside a
\* user who picks that offer and submits a URL for it as the edits left
\* it. Every HTTP call is answered 200.
OfferOutcomes ==
    {o \in AllOutcomes : o.kind = "response" /\ o.status = 200 /\ o.body_len = 500}

NextEdited ==
    \/ \E lists \in EditLists : CallEditOffer("o1", lists[1], lists[2])
    \/ \E text \in {<<"https://x.test/?clickid=abc123">>} : ReceiveMessage(RunUser, text)
    \/ \E data \in {<<"offer_", "o1">>} : ReceiveCallback(RunUser, data)
    \/ \E t \in ThreadIds : Step(t)
    \/ \E t \in ThreadIds, outcome \in OfferOutcomes : StepGet(t, outcome)

SpecEdited == Init /\ [][NextEdited]_vars

\* =================================================================
\* Properties of the offer registry (SpecOffers)

CountsValid(postbacks, delays) ==
    /\ Len(postbacks) >= 1 /\ Len(postbacks) <= 5
    /\ Len(delays) = Len(postbacks)

\* A call of fn returns in this step, from one of its operations or as
\* soon as it is made; last' is its record.
Returns(fn) ==
    /\ last'.kind = "call" /\ last'.fn = fn
    /\ \/ \E t \in DOMAIN threads : t \notin DOMAIN threads'
       \/ threads' = threads /\ last' # last

\* C11: create_offer rejects, inserting nothing, an empty postback list, a
\* list of more than 5 and a delay list of another length; any other input
\* inserts exactly one offer, enabled, with both counters at 0.
C11_CreateOfferValidates ==
    [][ Returns("create_offer") =>
          IF CountsValid(last'.run.postbacks, last'.run.delays)
          THEN /\ last'.ok
               /\ \E id \in DOMAIN offers' \ DOMAIN offers :
                     /\ DOMAIN offers' = DOMAIN offers \cup {id}
                     /\ offers'[id].enabled
                     /\ OfferCounters(offers'[id]) = <<0, 0>>
                     /\ offers'[id].postbacks = last'.run.postbacks
                     /\ offers'[id].delays = last'.run.delays
               /\ \A o \in DOMAIN offers : offers'[o] = offers[o]
          ELSE ~last'.ok /\ offers' = offers ]_vars

\* An offer of 5 postbacks has been created; a rejected input is reached
\* by the same action with the lists of ListLengths.
C11_Witness ==
    /\ last.kind = "call" /\ last.fn = "create_offer" /\ last.ok
    /\ Len(last.run.postbacks) = 5
    /\ "o2" \in DOMAIN offers
    /\ Len(offers["o2"].postbacks) = 5 /\ Len(offers["o2"].delays) = 5

\* C12: every stored offer has between 1 and 5 postback templates and as
\* many delays as templates, edit_offer rejecting any update that would
\* break this.
C12_StoredCountsValid ==
    \A o \in DOMAIN offers : CountsValid(offers[o].postbacks, offers[o].delays)

\* C13: after delete_offer has succeeded for an offer, no Submission
\* referencing that offer's id remains.
C13_DeleteCascades ==
    (last.kind = "call" /\ last.fn = "delete_offer" /\ last.ok)
       => \A j \in 1..Len(submissions) : submissions[j].offer_id # last.req

\* C14: delete_offer and edit_offer, given a well-formed id that no stored
\* offer has, report a failure and leave the offers collection unchanged.
C14_NotFoundReported ==
    [][ ( /\ Returns("delete_offer") \/ Returns("edit_offer")
          /\ ValidObjectId(last'.req)
          /\ last'.req \notin DOMAIN offers )
           => (~last'.ok /\ offers' = offers) ]_vars

\* ------------------------------------------------------------------
\* SpecCalls: the user, membership and help-request functions called
\* directly, the calls made side by side and the date changing at any
\* moment.
ReplyTexts == {<<"thanks">>, <<"again">>}

CallRequestIds == {HelpIdSeq[1], HelpIdSeq[Len(HelpIdSeq)]}

CallGetOrCreateUser(u) == Call(CallOf("get_or_create_user", u))

CallCheckMembership(u) == Call(CallOf("check_channel_membership", u))

CallAddHelpRequest(u) == Call(CallOf("add_help_request", u))

CallReplyToHelpRequest(request_id, reply_text) ==
    Call([CallOf("reply_to_help_request", ADMIN_ID) EXCEPT
                  !.req = request_id, !.rest = reply_text])

CallCanSendHelpRequest(u) == Call(CallOf("can_send_help_request", u))

NextCalls ==
    \/ \E u \in Members : CallGetOrCreateUser(u)
    \/ \E u \in Members : CallCanSendHelpRequest(u)
    \/ \E u \in Members : CallCheckMembership(u)
    \/ \E u \in Members : CallAddHelpRequest(u)
    \/ \E request_id \in CallRequestIds, reply_text \in ReplyTexts :
          CallReplyToHelpRequest(request_id, reply_text)
    \/ \E t \in ThreadIds : Step(t)
    \/ \E t \in ThreadIds, answer \in MemberAnswers : StepMember(t, answer)
    \/ Tick

SpecCalls == Init /\ [][NextCalls]_vars

\* =================================================================
\* Properties of the functions called directly (SpecCalls)

NewUserNotices(sent) ==
    Cardinality({i \in 1..Len(sent) :
                    sent[i] = [to |-> ADMIN_ID, tag |-> "new_user"]})

\* The direct call last of fn has returned.
Returned(fn) == last.kind = "call" /\ last.fn = fn /\ last.pc = 0

\* C16: as long as the calls are made one after the other (serial), a
\* call of get_or_create_user for an id with no record inserts exactly
\* one record, notifies the operator exactly once and reports is_new;
\* for an id that has a record (so the second of two calls in a row) it
\* returns from its find_one, reports not new, sends nothing and leaves
\* the users collection as it was.
C16_GetOrCreateIdempotent ==
    [][ \A t \in ThreadIds :
          (serial /\ Acting(t) /\ threads[t].fn = "get_or_create_user") =>
             LET r == threads[t]
                 u == r.user
                 returned == t \notin DOMAIN threads'
             IN  /\ IF r.pc = 75
                    THEN /\ DOMAIN users' = DOMAIN users \cup {u}
                         /\ users'[u] = NewUser
                         /\ \A x \in DOMAIN users : users'[x] = users[x]
                    ELSE users' = users
                 /\ r.pc = 70 => (returned <=> u \in DOMAIN users)
                 /\ returned =>
                      /\ ~last'.raised
                      /\ last'.is_new <=> r.pc # 70
                      /\ last'.doc = users'[u]
                      /\ Len(last'.sent) = NewUserNotices(last'.sent)
                      /\ NewUserNotices(last'.sent) = IF last'.is_new THEN 1 ELSE 0
      ]_vars

\* The second call in a row for a user the first call created.
C16_Witness ==
    /\ Returned("get_or_create_user")
    /\ last.user # ADMIN_ID
    /\ ~last.is_new /\ last.sent = <<>>
    /\ users[last.user] = NewUser
    /\ help_requests = <<>>
    /\ serial

\* C17: check_channel_membership returns true only when, for every
\* required channel, the provider answered ok with a status other than
\* left and kicked; a left or kicked status, a not-ok answer or an
\* exception at any channel makes it return false at that channel.
C17_MembershipFailsClosed ==
    Returned("check_channel_membership") =>
       /\ last.ok <=>
             /\ Len(last.answers) = Cardinality(REQUIRED_CHANNELS)
             /\ \A c \in 1..Len(last.answers) :
                   last.answers[c] \notin {"left", "kicked", "not_ok", "error"}
       /\ ~last.ok =>
             /\ last.answers[Len(last.answers)] \in {"left", "kicked", "not_ok", "error"}
             /\ \A c \in 1..(Len(last.answers) - 1) :
                   last.answers[c] \notin {"left", "kicked", "not_ok", "error"}

\* The call for the second channel raised after the first channel answered
\* with a member status, and the result is false.
C17_Witness ==
    /\ Returned("check_channel_membership")
    /\ last.answers = <<"restricted", "error">>
    /\ ~last.ok

\* C20: reply_to_help_request, finding at its find_one a request already
\* resolved, returns with the request as it was and no reply sent to the
\* user.
C20_RepliedOnce ==
    [][ \A t \in ThreadIds :
          ( /\ Acting(t) /\ threads[t].pc = 172
            /\ threads[t].req \in DOMAIN help_requests
            /\ help_requests[threads[t].req].status = "resolved" )
           => ( /\ t \notin DOMAIN threads'
                /\ help_requests' = help_requests
                /\ last'.sent = <<>> ) ]_vars

\* C21: can_send_help_request, asked about a user id that has no stored
\* record, answers that the request is allowed.
C21_AbsentUserAllowed ==
    (Returned("can_send_help_request") /\ last.user \notin DOMAIN users)
       => last.ok

\* ------------------------------------------------------------------
\* SpecConcurrent: every user has had a URL accepted for the seeded offer,
\* and the requests run side by side, one thread each, their blocking
\* operations in any order.
InitConcurrent ==
    LET url == <<"https://x.test/?clickid=abc123">>
        doc == [NewUser EXCEPT !.current_mode = "offer_mode",
                               !.current_offer_id = "o1"]
    IN  /\ users = [u \in UserIds |-> doc]
        /\ joined = SortedIds(UserIds, <<1, 2>>)
        /\ banned = {}
        /\ offers = InitOffers
        /\ submissions = <<>>
        /\ help_requests = <<>>
        /\ oids = InitOids
        /\ today = 0
        /\ threads = [t \in UserIds |->
                        [NewThread("message", t, url, <<"">>)
                           EXCEPT !.pc = 654, !.site = 590,
                                  !.branch = "offer_mode", !.doc = doc,
                                  !.run = NewRun("o1", url, SeedOffer)]]
        /\ last = NoThread
        /\ serial = FALSE

NextConcurrent ==
    \/ \E t \in DOMAIN threads : Step(t)
    \/ \E t \in DOMAIN threads, outcome \in MainOutcomes : StepGet(t, outcome)

SpecConcurrent == InitConcurrent /\ [][NextConcurrent]_vars

\* =================================================================
\* Properties of runs that complete side by side (SpecConcurrent)

\* The runs whose Submission is stored and whose update_one of line 300
\* is still to come.
Uncounted == {t \in DOMAIN threads : threads[t].pc = 300}

\* C15: whatever the interleaving of the runs of distinct users on one
\* offer, once k of them have passed their update_one the offer's
\* total_submissions has grown by k and its success_count by the number
\* of those runs whose success flag is true (every run stores its
\* Submission before it updates the counters).
C15_NoLostIncrement ==
    OfferCounters(offers["o1"]) =
        <<Len(submissions) - Cardinality(Uncounted),
          Cardinality({j \in 1..Len(submissions) : submissions[j].success})
            - Cardinality({t \in Uncounted : threads[t].run.all_success})>>

\* Two runs, one successful and one not, have completed, each having
\* inserted its Submission before the other updated the counters.
C15_Witness ==
    /\ threads = <<>>
    /\ Len(submissions) = 2
    /\ last.run.seen = <<0, 0>>
    /\ OfferCounters(offers["o1"]) = <<2, 1>>

\* ------------------------------------------------------------------
\* SpecPanel: an operator who is in one of the modes that prompt for an
\* input, who sends /cancel or an input and presses the buttons of the
\* admin panel and of offer management, beside a user who starts the bot.
PanelModes == {"broadcast_mode", "ban_mode", "unban_mode",
                "offer_delete_mode", "offer_edit_mode"}

InitPanel == \E m \in PanelModes : InitWith(m)

PanelTexts == {<<"/start">>, <<"hello">>}

NextPanel ==
    \/ \E text \in {<<"/cancel">>, <<"2">>, <<"o1">>} : ReceiveMessage(ADMIN_ID, text)
    \/ \E data \in {<<"admin_broadcast">>, <<"admin_ban">>, <<"admin_unban">>,
                     <<"offer_", "create">>, <<"offer_", "edit">>,
                     <<"offer_", "delete">>, <<"offer_", "list">>} :
          ReceiveCallback(ADMIN_ID, data)
    \/ \E u \in Members, text \in PanelTexts : ReceiveMessage(u, text)
    \/ \E t \in ThreadIds : Step(t)

SpecPanel == InitPanel /\ [][NextPanel]_vars

\* =================================================================
\* Leaving a mode with /cancel, and the offer buttons (SpecPanel)

\* C25: when the operator is in broadcast, ban, unban, offer-delete or
\* offer-edit mode and sends /cancel, no step of the handling sends a
\* broadcast or changes the ban records or the offers, and when the
\* request returns the operator's mode is none.
C25_CancelLeavesMode ==
    [][ \A t \in ThreadIds :
          ( /\ Acting(t)
            /\ threads[t].user = ADMIN_ID
            /\ threads[t].text = <<"/cancel">>
            /\ threads[t].branch \in PanelModes )
           => ( /\ banned' = banned
                /\ offers' = offers
                /\ ~HasSent(After(t), "broadcast")
                /\ t \notin DOMAIN threads' =>
                      users'[ADMIN_ID].current_mode = NoMode ) ]_vars

OfferButtons == {"create", "edit", "delete", "list"}

\* C30: the operator's presses of offer_create, offer_edit, offer_delete
\* and offer_list each reach their own admin handler: after offer_create
\* the operator's mode is offer_create_mode, after offer_edit it is
\* offer_edit_mode, after offer_delete it is offer_delete_mode, and none of
\* the four is handled as the selection of an offer.
C30_OfferButtonsRouted ==
    ( /\ last.kind = "callback" /\ last.user = ADMIN_ID /\ last.pc = 0
      /\ last.branch # "banned"
      /\ last.data[1] = "offer_" /\ last.data[2] \in OfferButtons )
       => /\ last.branch # "offer_select"
          /\ last.data[2] = "create" =>
                users[ADMIN_ID].current_mode = "offer_create_mode"
          /\ last.data[2] = "edit" =>
                users[ADMIN_ID].current_mode = "offer_edit_mode"
          /\ last.data[2] = "delete" =>
                users[ADMIN_ID].current_mode = "offer_delete_mode"

\* C31: however the help messages of one user that are handled side by
\* side interleave, at most HelpLimit help requests are recorded for that
\* user on one UTC date.
C31_QuotaUnderInterleaving ==
    \A u \in UserIds :
        \A d \in 0..MaxDay :
            Cardinality({h \in DOMAIN help_requests :
                            /\ help_requests[h].user_id = u
                            /\ help_requests[h].created_at = d}) <= HelpLimit

\* ------------------------------------------------------------------
\* SpecInterleave: an operator who bans and a user who asks
\* for help and picks an offer, their requests handled side by side: an
\* update arrives whatever the other request is doing.
NextInterleave ==
    \/ \E text \in {<<"2">>} : ReceiveMessage(ADMIN_ID, text)
    \/ \E data \in {<<"admin_ban">>} : ReceiveCallback(ADMIN_ID, data)
    \/ \E u \in Members, text \in {<<"hello">>} : ReceiveMessage(u, text)
    \/ \E u \in Members, data \in {<<"help">>, <<"offer_", "o1">>} :
          ReceiveCallback(u, data)
    \/ \E t \in ThreadIds : Step(t)
    \/ \E t \in ThreadIds, answer \in RaceAnswers : StepMember(t, answer)

SpecInterleave == Init /\ [][NextInterleave]_vars

\* =================================================================
\* Effects on other users (SpecInterleave)

\* C29: no step of the handling of an event of one user, whatever the
\* requests of other users it is interleaved with, changes the record of
\* another stored user: its mode, its selected offer and its help-request
\* counters stay as they were; the arrival of an update changes no record.
C29_OtherUsersUntouched ==
    [][ \A t \in ThreadIds :
          /\ Arriving(t) => users' = users
          /\ Acting(t) =>
               \A b \in DOMAIN users :
                  b # threads[t].user =>
                     /\ b \in DOMAIN users'
                     /\ users'[b].current_mode = users[b].current_mode
                     /\ users'[b].current_offer_id = users[b].current_offer_id
                     /\ users'[b].help_requests_today = users[b].help_requests_today
                     /\ users'[b].last_help_request_date
                           = users[b].last_help_request_date
      ]_vars

\* The operator has just entered ban mode, while a request of user 2, who
\* is in offer_mode with the seeded offer selected and one help request
\* counted, is in flight.
C29_Witness ==
    /\ last.kind = "callback" /\ last.user = ADMIN_ID
    /\ users[ADMIN_ID].current_mode = "ban_mode"
    /\ \E r \in InFlight : r.user = 2
    /\ 2 \in DOMAIN users
    /\ users[2].current_mode = "offer_mode"
    /\ users[2].current_offer_id = "o1"
    /\ users[2].help_requests_today = 1

\* =================================================================
\* SpecCreate: an operator in offer_create_mode who sends creation
\* messages of every length, beside a user who starts the bot and picks
\* offers.
CreatePostbacks == <<TemplateA, TemplateB, "https://pb3.test/", "https://pb4.test/",
                     "https://pb5.test/">>

CreateDelays == <<"2", "0", "1", "3", "0">>

\* Name|StartLink|PB1|...|PBk|D1|...|Dk
CreateText(k) ==
    <<"Offer", "https://x.test">> \o SubSeq(CreatePostbacks, 1, k)
                                  \o SubSeq(CreateDelays, 1, k)

CreateTexts ==
    {CreateText(k) : k \in 1..MaxPostbacks}
       \cup { <<"Offer", "https://x.test", TemplateA>>,
              <<"Offer", "https://x.test", TemplateA, "soon">>,
              <<"Offer", "https://x.test", TemplateA, TemplateB, "-1", "0">> }

NextCreate ==
    \/ \E text \in CreateTexts : ReceiveMessage(ADMIN_ID, text)
    \/ \E u \in Members, text \in PanelTexts : ReceiveMessage(u, text)
    \/ \E u \in Members,
          data \in {<<"offers">>, <<"offer_", "o1">>, <<"offer_", "o2">>} :
          ReceiveCallback(u, data)
    \/ \E t \in ThreadIds : Step(t)
    \/ \E t \in ThreadIds, answer \in RaceAnswers : StepMember(t, answer)

SpecCreate == InitWith("offer_create_mode") /\ [][NextCreate]_vars

\* C32: for every k in 1..5, the message Name|StartLink|PB1|...|PBk|D1|...|Dk
\* of an operator in offer_create_mode goes to the create_offer call of
\* line 838, which creates exactly one offer, whose postbacks are PB1..PBk
\* and whose delays are D1..Dk, in that order; no other step of the
\* request changes the offers, and the offers stored before stay as they
\* were.
C32_CreateMessageParsed ==
    [][ \A t \in ThreadIds, k \in 1..MaxPostbacks :
          ( /\ Acting(t)
            /\ threads[t].user = ADMIN_ID
            /\ threads[t].text = CreateText(k)
            /\ After(t).branch = "offer_create_mode" )
          => /\ threads[t].branch = "none" => After(t).pc = 838
             /\ IF threads[t].pc = 838
                THEN \E id \in DOMAIN offers' \ DOMAIN offers :
                        /\ DOMAIN offers' = DOMAIN offers \cup {id}
                        /\ offers'[id].postbacks = SubSeq(CreatePostbacks, 1, k)
                        /\ offers'[id].delays =
                              [j \in 1..k |-> IntTable[CreateDelays[j]]]
                        /\ \A o \in DOMAIN offers : offers'[o] = offers[o]
                ELSE offers' = offers ]_vars

\* The operator's message with five postbacks has created the offer and
\* the request has returned.
C32_Witness ==
    /\ last.kind = "message" /\ last.user = ADMIN_ID
    /\ last.branch = "offer_create_mode" /\ last.http = 200
    /\ HasSent(last, "offer_created")
    /\ \E id \in DOMAIN offers :
          /\ offers[id].postbacks = CreatePostbacks
          /\ offers[id].delays = <<2, 0, 1, 3, 0>>

\* =================================================================
\* The delays an offer can hold (SpecCreate)

\* C34: every delay stored in an offer is a non-negative integer.
C34_DelaysNonNegative ==
    \A o \in DOMAIN offers :
        \A k \in 1..Len(offers[o].delays) :
            offers[o].delays[k] \in Nat
====
